---- MODULE Spec2Model ----
(***************************************************************************)
(* netbox-dnsupdate: webhook events (created / updated / deleted) are      *)
(* compiled into nsupdate scripts and executed by background goroutines    *)
(* that serialise per name through the RecordLockManager.                  *)
(*                                                                         *)
(* Go strings are modelled as sequences of one-character strings, so that  *)
(* strings.ToUpper, strings.HasSuffix, net.ParseIP ... are computed as     *)
(* the code computes them.  A nil pointer is the empty sequence and a      *)
(* non-nil pointer to x is the one-element sequence <<x>>.                 *)
(***************************************************************************)
EXTENDS Integers, Sequences, FiniteSets, TLC

VARIABLES
    requests,   \* the webhook requests of this run, one per request id
    resp,       \* the HTTP answer written for each request
    fwd,        \* the forward-record goroutine started for each request
    ptr,        \* the PTR goroutine started for each request
    locks,      \* RecordLockManager.locks: key -> the mutex stored under it
    mutexes,    \* every sync.Mutex handed out by the registry: locked or not
    fatal,      \* the Go runtime stopped on "sync: unlock of unlocked mutex"
    call        \* a call of reverseDNSName on its own: its argument and result

vars == <<requests, resp, fwd, ptr, locks, mutexes, fatal, call>>

----------------------------------------------------------------------------
(* Pointers *)

Nil == <<>>

Ref(x) == <<x>>

Deref(p) == p[1]

----------------------------------------------------------------------------
(* Strings *)

Empty == <<>>

Dot == "."

DOT == <<".">>

LowerOf ==
    [c \in {"A","B","C","D","E","F","G","H","I","J","K","L","M","N","O","P",
            "Q","R","S","T","U","V","W","X","Y","Z"} |->
        CASE c = "A" -> "a" [] c = "B" -> "b" [] c = "C" -> "c" [] c = "D" -> "d"
          [] c = "E" -> "e" [] c = "F" -> "f" [] c = "G" -> "g" [] c = "H" -> "h"
          [] c = "I" -> "i" [] c = "J" -> "j" [] c = "K" -> "k" [] c = "L" -> "l"
          [] c = "M" -> "m" [] c = "N" -> "n" [] c = "O" -> "o" [] c = "P" -> "p"
          [] c = "Q" -> "q" [] c = "R" -> "r" [] c = "S" -> "s" [] c = "T" -> "t"
          [] c = "U" -> "u" [] c = "V" -> "v" [] c = "W" -> "w" [] c = "X" -> "x"
          [] c = "Y" -> "y" [] c = "Z" -> "z"]

UpperOf ==
    [c \in {"a","b","c","d","e","f","g","h","i","j","k","l","m","n","o","p",
            "q","r","s","t","u","v","w","x","y","z"} |->
        CHOOSE u \in DOMAIN LowerOf : LowerOf[u] = c]

\* the event name is compared as it was sent
ToLowerIdentity(s) == s

\* strings.ToLower
ToLower(s) == [i \in 1..Len(s) |-> IF s[i] \in DOMAIN LowerOf THEN LowerOf[s[i]] ELSE s[i]]

\* strings.ToUpper
ToUpper(s) == [i \in 1..Len(s) |-> IF s[i] \in DOMAIN UpperOf THEN UpperOf[s[i]] ELSE s[i]]

\* strings.HasSuffix
HasSuffix(s, suffix) ==
    /\ Len(s) >= Len(suffix)
    /\ SubSeq(s, Len(s) - Len(suffix) + 1, Len(s)) = suffix

\* strings.HasPrefix
HasPrefix(s, prefix) ==
    /\ Len(s) >= Len(prefix)
    /\ SubSeq(s, 1, Len(prefix)) = prefix

\* strings.TrimSuffix
TrimSuffix(s, suffix) ==
    IF HasSuffix(s, suffix) THEN SubSeq(s, 1, Len(s) - Len(suffix)) ELSE s

\* strings.TrimPrefix
TrimPrefix(s, prefix) ==
    IF HasPrefix(s, prefix) THEN SubSeq(s, Len(prefix) + 1, Len(s)) ELSE s

IsSpace(c) == c \in {" ", "\t", "\n", "\r"}

RECURSIVE TrimLeft(_)
TrimLeft(s) == IF s # <<>> /\ IsSpace(Head(s)) THEN TrimLeft(Tail(s)) ELSE s

RECURSIVE TrimRight(_)
TrimRight(s) ==
    IF s # <<>> /\ IsSpace(s[Len(s)]) THEN TrimRight(SubSeq(s, 1, Len(s) - 1)) ELSE s

\* strings.TrimSpace
TrimSpace(s) == TrimRight(TrimLeft(s))

\* strings.Split(s, sep) for a one-character separator
RECURSIVE SplitFrom(_, _, _)
SplitFrom(s, sep, cur) ==
    IF s = <<>> THEN <<cur>>
    ELSE IF Head(s) = sep THEN <<cur>> \o SplitFrom(Tail(s), sep, <<>>)
    ELSE SplitFrom(Tail(s), sep, Append(cur, Head(s)))

Split(s, sep) == SplitFrom(s, sep, <<>>)

\* strings.Join
RECURSIVE Join(_, _)
Join(parts, sep) ==
    IF parts = <<>> THEN <<>>
    ELSE IF Len(parts) = 1 THEN parts[1]
    ELSE parts[1] \o sep \o Join(Tail(parts), sep)

----------------------------------------------------------------------------
(* net.ParseIP, as the Go standard library parses the two address forms *)

DigitChars == <<"0","1","2","3","4","5","6","7","8","9">>

HexChars == <<"0","1","2","3","4","5","6","7","8","9","a","b","c","d","e","f">>

IsDigit(c) == \E d \in 1..Len(DigitChars) : DigitChars[d] = c

DigitVal(c) == (CHOOSE d \in 1..Len(DigitChars) : DigitChars[d] = c) - 1

IsHex(c) == \E d \in 1..Len(HexChars) : HexChars[d] = ToLower(<<c>>)[1]

HexVal(c) == (CHOOSE d \in 1..Len(HexChars) : HexChars[d] = ToLower(<<c>>)[1]) - 1

RECURSIVE DecVal(_)
DecVal(s) == IF s = <<>> THEN 0 ELSE DecVal(SubSeq(s, 1, Len(s) - 1)) * 10 + DigitVal(s[Len(s)])

\* strconv.Itoa / the %d verb, for n >= 0
RECURSIVE Itoa(_)
Itoa(n) == IF n < 10 THEN <<DigitChars[n + 1]>> ELSE Itoa(n \div 10) \o <<DigitChars[(n % 10) + 1]>>

\* one dotted-decimal field: digits only, no leading zero, at most 255
IPv4FieldOk(f) ==
    /\ f # <<>>
    /\ \A i \in 1..Len(f) : IsDigit(f[i])
    /\ ~(Len(f) > 1 /\ f[1] = "0")
    /\ Len(f) <= 3
    /\ DecVal(f) <= 255

\* netip.parseIPv4Fields: Nil, or a pointer to the four bytes
ParseIPv4Fields(s) ==
    LET fields == Split(s, Dot)
    IN  IF Len(fields) = 4 /\ \A i \in 1..4 : IPv4FieldOk(fields[i])
        THEN Ref([i \in 1..4 |-> DecVal(fields[i])])
        ELSE Nil

V4InV6Prefix == <<0, 0, 0, 0, 0, 0, 0, 0, 0, 0, 255, 255>>

RECURSIVE HexRunLen(_)
HexRunLen(s) == IF s # <<>> /\ IsHex(Head(s)) THEN 1 + HexRunLen(Tail(s)) ELSE 0

RECURSIVE HexAcc(_)
HexAcc(s) == IF s = <<>> THEN 0 ELSE HexAcc(SubSeq(s, 1, Len(s) - 1)) * 16 + HexVal(s[Len(s)])

Zeros(n) == [i \in 1..n |-> 0]

\* the loop of netip.parseIPv6: s is the unparsed rest, ip the bytes saved so
\* far, ellipsis the byte position of "::" (-1: none).  Nil on a parse error.
RECURSIVE ParseIPv6Loop(_, _, _)
ParseIPv6Loop(s, ip, ellipsis) ==
    LET i   == Len(ip)
        off == HexRunLen(s)
        acc == HexAcc(SubSeq(s, 1, off))
        ip2 == ip \o <<acc \div 256, acc % 256>>
        s2  == SubSeq(s, off + 1, Len(s))
        s3  == Tail(s2)
        v4  == ParseIPv4Fields(s)
    IN  IF i >= 16 THEN Ref([s |-> s, ip |-> ip, ellipsis |-> ellipsis])
        ELSE IF off = 0 \/ off > 4 THEN Nil
        ELSE IF off < Len(s) /\ s[off + 1] = Dot
             THEN IF (ellipsis < 0 /\ i # 12) \/ i + 4 > 16 \/ v4 = Nil THEN Nil
                  ELSE Ref([s |-> <<>>, ip |-> ip \o Deref(v4), ellipsis |-> ellipsis])
        ELSE IF s2 = <<>> THEN Ref([s |-> <<>>, ip |-> ip2, ellipsis |-> ellipsis])
        ELSE IF s2[1] # ":" \/ Len(s2) = 1 THEN Nil
        ELSE IF s3[1] = ":"
             THEN IF ellipsis >= 0 THEN Nil
                  ELSE IF Tail(s3) = <<>>
                       THEN Ref([s |-> <<>>, ip |-> ip2, ellipsis |-> i + 2])
                       ELSE ParseIPv6Loop(Tail(s3), ip2, i + 2)
        ELSE ParseIPv6Loop(s3, ip2, ellipsis)

\* the end of netip.parseIPv6: the whole string must be used, and "::" stands
\* for the missing bytes, at least two of them
ExpandEllipsis(r) ==
    IF r = Nil THEN Nil
    ELSE IF Deref(r).s # <<>> THEN Nil
    ELSE IF Len(Deref(r).ip) < 16
         THEN IF Deref(r).ellipsis < 0 THEN Nil
              ELSE Ref(SubSeq(Deref(r).ip, 1, Deref(r).ellipsis)
                       \o Zeros(16 - Len(Deref(r).ip))
                       \o SubSeq(Deref(r).ip, Deref(r).ellipsis + 1, Len(Deref(r).ip)))
    ELSE IF Deref(r).ellipsis >= 0 THEN Nil
    ELSE Ref(Deref(r).ip)

\* netip.parseIPv6 (net.ParseIP rejects an address with a zone)
ParseIPv6(in) ==
    IF \E k \in 1..Len(in) : in[k] = "%" THEN Nil
    ELSE IF Len(in) >= 2 /\ in[1] = ":" /\ in[2] = ":"
         THEN IF Len(in) = 2 THEN Ref(Zeros(16))
              ELSE ExpandEllipsis(ParseIPv6Loop(SubSeq(in, 3, Len(in)), <<>>, 0))
    ELSE ExpandEllipsis(ParseIPv6Loop(in, <<>>, -1))

\* the first of '.', ':' and '%' decides the form (netip.ParseAddr)
RECURSIVE FirstMark(_)
FirstMark(s) ==
    IF s = <<>> THEN ""
    ELSE IF Head(s) \in {".", ":", "%"} THEN Head(s)
    ELSE FirstMark(Tail(s))

\* net.ParseIP: Nil, or a pointer to the 16-byte form of the address
V4Mapped(v4) == IF v4 = Nil THEN Nil ELSE Ref(V4InV6Prefix \o Deref(v4))

ParseIP(s) ==
    CASE FirstMark(s) = "." -> V4Mapped(ParseIPv4Fields(s))
      [] FirstMark(s) = ":" -> ParseIPv6(s)
      [] OTHER -> Nil

\* net.IP.To4: Nil unless the 16 bytes are an IPv4-mapped address
To4(ip) ==
    IF Len(ip) = 16 /\ SubSeq(ip, 1, 12) = V4InV6Prefix THEN Ref(SubSeq(ip, 13, 16)) ELSE Nil

\* net.IP.String of an address whose To4 is not nil
IPv4String(ip) == Join([i \in 1..4 |-> Itoa(Deref(To4(ip))[i])], DOT)

----------------------------------------------------------------------------
(* helpers.go *)

\* net.SplitHostPort for an address without brackets: Nil when the address has
\* no port or too many colons
RECURSIVE LastIndex(_, _)
LastIndex(s, c) ==
    IF s = <<>> THEN 0
    ELSE IF s[Len(s)] = c THEN Len(s)
    ELSE LastIndex(SubSeq(s, 1, Len(s) - 1), c)

SplitHostPort(address) ==
    LET k    == LastIndex(address, ":")
        host == SubSeq(address, 1, k - 1)
        port == SubSeq(address, k + 1, Len(address))
    IN  IF k = 0 \/ LastIndex(host, ":") # 0 THEN Nil
        ELSE Ref([host |-> host, port |-> port])

extractHost(address) ==
    IF SplitHostPort(address) = Nil THEN address ELSE Deref(SplitHostPort(address)).host

extractPort(address) ==
    IF SplitHostPort(address) = Nil THEN <<"5", "3">> ELSE Deref(SplitHostPort(address)).port

isValidIP(ip) == ParseIP(ip) # Nil

InAddrArpa == <<".","i","n","-","a","d","d","r",".","a","r","p","a",".">>

Ip6Arpa == <<".","i","p","6",".","a","r","p","a",".">>

\* the nibbles of bytes ip[n] down to ip[1], low nibble then high nibble
RECURSIVE Nibbles(_, _)
Nibbles(ip, n) ==
    IF n = 0 THEN <<>>
    ELSE << <<HexChars[(ip[n] % 16) + 1]>>, <<HexChars[((ip[n] \div 16) % 16) + 1]>> >>
         \o Nibbles(ip, n - 1)

\* the octets are not reversed
ReverseOctetsKeepsOrder(octets) == octets

ReverseOctets(octets) == <<octets[4], octets[3], octets[2], octets[1]>>

\* reverseDNSName after its net.ParseIP call
reverseOfParsed(parsedIP) ==
    IF parsedIP = Nil THEN Empty
    ELSE IF To4(Deref(parsedIP)) # Nil
         THEN Join(ReverseOctets(Split(IPv4String(Deref(parsedIP)), Dot)), DOT)
              \o InAddrArpa
    ELSE Join(Nibbles(Deref(parsedIP), 16), DOT) \o Ip6Arpa

reverseDNSName(ip) == reverseOfParsed(ParseIP(ip))

snapshotToRecordData(s) ==
    IF s = Nil THEN Nil
    ELSE Ref([ID         |-> Deref(s).ID,
              Name       |-> Deref(s).Name,
              FQDN       |-> Deref(s).FQDN,
              Type       |-> Deref(s).Type,
              Value      |-> Deref(s).Value,
              TTL        |-> Deref(s).TTL,
              DisablePTR |-> Deref(s).DisablePTR,
              Zone       |-> [ID |-> Deref(s).Zone, Name |-> Empty]])

\* the owner name is not taken off the FQDN
getZoneNameFromFQDNKeepsOwner(fqdn, recordName) == TrimSuffix(fqdn, DOT)

getZoneNameFromFQDN(fqdn, recordName) ==
    LET f == TrimSuffix(fqdn, DOT)
        n == TrimSuffix(recordName, DOT)
    IN  IF n = Empty THEN f
        ELSE IF HasPrefix(f, n \o DOT) THEN TrimPrefix(f, n \o DOT)
        ELSE f

adjustCNAMEValue(value, fqdn, recordName) ==
    LET v        == TrimSpace(value)
        zoneName == getZoneNameFromFQDN(fqdn, recordName)
    IN  IF HasSuffix(v, DOT) THEN v
        ELSE IF zoneName # Empty THEN v \o DOT \o zoneName \o DOT
        ELSE v

----------------------------------------------------------------------------
(* dns_update.go: a script is the sequence of its lines; a line is the     *)
(* record of the fields its format string prints.                          *)

PTR == <<"P", "T", "R">>

DefaultTTL == 300

ServerLine(host, port) == [op |-> "server", host |-> host, port |-> port]

AddLine(name, ttl, type, value) ==
    [op |-> "add", name |-> name, ttl |-> ttl, type |-> type, value |-> value]

DeleteLine(name, type, value) ==
    [op |-> "delete", name |-> name, type |-> type, value |-> value]

SendLine == [op |-> "send"]

\* the add of an update is written before its delete
ConstructNSUpdateScriptAddFirst(host, port, fqdn, recordType, oldValue, newValue, event, ttl) ==
    <<ServerLine(host, port)>>
    \o (CASE event = "created" ->
               <<AddLine(fqdn, IF ttl <= 0 THEN DefaultTTL ELSE ttl, recordType, newValue)>>
          [] event = "deleted" ->
               <<DeleteLine(fqdn, recordType, oldValue)>>
          [] event = "updated" ->
               <<AddLine(fqdn, ttl, recordType, newValue),
                 DeleteLine(fqdn, recordType, oldValue)>>
          [] OTHER -> <<>>)
    \o <<SendLine>>

ConstructNSUpdateScript(host, port, fqdn, recordType, oldValue, newValue, event, ttl) ==
    <<ServerLine(host, port)>>
    \o (CASE event = "created" ->
               <<AddLine(fqdn, IF ttl <= 0 THEN DefaultTTL ELSE ttl, recordType, newValue)>>
          [] event = "deleted" ->
               <<DeleteLine(fqdn, recordType, oldValue)>>
          [] event = "updated" ->
               <<DeleteLine(fqdn, recordType, oldValue),
                 AddLine(fqdn, ttl, recordType, newValue)>>
          [] OTHER -> <<>>)
    \o <<SendLine>>

\* the PTR record is written with its owner name and its target exchanged
ConstructPTRUpdateScriptSwapped(host, port, ptrName, fqdn, event, ttl) ==
    <<ServerLine(host, port)>>
    \o (CASE event = "created" ->
               <<AddLine(fqdn, IF ttl <= 0 THEN DefaultTTL ELSE ttl, PTR, ptrName)>>
          [] event = "deleted" ->
               <<DeleteLine(fqdn, PTR, ptrName)>>
          [] OTHER -> <<>>)
    \o <<SendLine>>

ConstructPTRUpdateScript(host, port, ptrName, fqdn, event, ttl) ==
    <<ServerLine(host, port)>>
    \o (CASE event = "created" ->
               <<AddLine(ptrName, IF ttl <= 0 THEN DefaultTTL ELSE ttl, PTR, fqdn)>>
          [] event = "deleted" ->
               <<DeleteLine(ptrName, PTR, fqdn)>>
          [] OTHER -> <<>>)
    \o <<SendLine>>

\* config.BindServerAddress as LoadConfig defaults it: "127.0.0.1:53"
BindServerAddress == <<"1","2","7",".","0",".","0",".","1",":","5","3">>

----------------------------------------------------------------------------
(* event_handlers.go: what a handler computes before it answers.  The      *)
(* result names the answer, the forward goroutine it starts (Nil: none)    *)
(* and the arguments of its handlePTRUpdate call (Nil: no call).           *)

TypeA == <<"A">>

TypeAAAA == <<"A", "A", "A", "A">>

TypeCNAME == <<"C", "N", "A", "M", "E">>

StatusOK == 200

StatusBadRequest == 400

StatusMethodNotAllowed == 405

Respond(status, body) == [status |-> status, body |-> body]

NoResponse == Respond(0, "")

Accepted == Respond(StatusOK, "Webhook received and is being processed")

SnapshotsMissing == Respond(StatusBadRequest, "Snapshots missing in payload")

Host == extractHost(BindServerAddress)

Port == extractPort(BindServerAddress)

\* the TTL of the payload is ignored
HandlerTTLAlwaysDefault(ttl) == DefaultTTL

HandlerTTL(ttl) == IF ttl # Nil /\ Deref(ttl) > 0 THEN Deref(ttl) ELSE DefaultTTL

\* a PTR update is asked for whatever the record type
createdNeedsPTRAnyType(payload, recordType) == ~payload.Data.DisablePTR

\* the condition of handleCreatedEvent's handlePTRUpdate call
createdNeedsPTR(payload, recordType) ==
    ~payload.Data.DisablePTR /\ recordType \in {TypeA, TypeAAAA}

handleCreatedEvent(payload) ==
    LET fqdn       == payload.Data.FQDN
        recordType == ToUpper(payload.Data.Type)
        value      == IF recordType = TypeCNAME
                      THEN adjustCNAMEValue(payload.Data.Value, fqdn, payload.Data.Name)
                      ELSE payload.Data.Value
        ttl        == HandlerTTL(payload.Data.TTL)
        script     == ConstructNSUpdateScript(Host, Port, fqdn, recordType,
                                              Empty, value, "created", ttl)
    IN  [resp |-> Accepted,
         fwd  |-> Ref([fqdn |-> fqdn, script |-> script]),
         ptr  |-> IF createdNeedsPTR(payload, recordType)
                  THEN Ref([event |-> "created", preData |-> Nil,
                            postData |-> Ref(payload.Data)])
                  ELSE Nil]

\* the check that opens handleDeletedEvent
deletedSnapshotsMissing(payload) ==
    payload.Snapshots = Nil \/ Deref(payload.Snapshots).PreChange = Nil

\* the record to delete is read from payload.Data
deletedPreChangeFromData(payload) ==
    [ID |-> payload.Data.ID, Name |-> payload.Data.Name, FQDN |-> payload.Data.FQDN,
     Type |-> payload.Data.Type, Value |-> payload.Data.Value, TTL |-> payload.Data.TTL,
     DisablePTR |-> payload.Data.DisablePTR, Zone |-> payload.Data.Zone.ID]

\* preChange := payload.Snapshots.PreChange
deletedPreChange(payload) == Deref(Deref(payload.Snapshots).PreChange)

\* the condition of handleDeletedEvent's handlePTRUpdate call
deletedNeedsPTR(preChange, recordType) ==
    ~preChange.DisablePTR /\ recordType \in {TypeA, TypeAAAA}

handleDeletedEvent(payload) ==
    LET preChange  == deletedPreChange(payload)
        fqdn       == preChange.FQDN
        recordType == ToUpper(preChange.Type)
        value      == IF recordType = TypeCNAME
                      THEN adjustCNAMEValue(preChange.Value, fqdn, preChange.Name)
                      ELSE preChange.Value
        script     == ConstructNSUpdateScript(Host, Port, fqdn, recordType,
                                              value, Empty, "deleted", 0)
    IN  IF deletedSnapshotsMissing(payload)
        THEN [resp |-> SnapshotsMissing, fwd |-> Nil, ptr |-> Nil]
        ELSE [resp |-> Accepted,
              fwd  |-> Ref([fqdn |-> fqdn, script |-> script]),
              ptr  |-> IF deletedNeedsPTR(preChange, recordType)
                       THEN Ref([event |-> "deleted",
                                 preData |-> snapshotToRecordData(Ref(preChange)),
                                 postData |-> Nil])
                       ELSE Nil]

\* the check without its FQDN test
updatedSnapshotsMissingIgnoresFQDN(payload) ==
    payload.Snapshots = Nil \/ Deref(payload.Snapshots).PostChange = Nil

\* the check that opens handleUpdatedEvent
updatedSnapshotsMissing(payload) ==
    \/ payload.Snapshots = Nil
    \/ Deref(payload.Snapshots).PostChange = Nil
    \/ Deref(Deref(payload.Snapshots).PostChange).FQDN = Empty

\* a PTR update is asked for only when the postchange snapshot enables PTR
updatedNeedsPTRWhenEnabled(recordType, preData, postData) ==
    recordType \in {TypeA, TypeAAAA} /\ ~Deref(postData).DisablePTR

\* the condition of handleUpdatedEvent's handlePTRUpdate call
updatedNeedsPTR(recordType, preData, postData) ==
    LET preDisablePTR  == IF preData # Nil THEN Deref(preData).DisablePTR ELSE FALSE
        postDisablePTR == Deref(postData).DisablePTR
    IN  /\ recordType \in {TypeA, TypeAAAA}
        /\ (preDisablePTR # postDisablePTR \/ ~postDisablePTR)

\* the update is made on the name of the prechange snapshot when there is one
handleUpdatedEventOnBeforeName(payload) ==
    LET preChange  == Deref(payload.Snapshots).PreChange
        postChange == Deref(Deref(payload.Snapshots).PostChange)
        fqdn       == IF preChange # Nil THEN Deref(preChange).FQDN ELSE postChange.FQDN
        recordType == ToUpper(postChange.Type)
        ttl        == HandlerTTL(postChange.TTL)
        oldValue0  == IF preChange # Nil THEN Deref(preChange).Value ELSE Empty
        newValue   == IF recordType = TypeCNAME
                      THEN adjustCNAMEValue(postChange.Value, postChange.FQDN, postChange.Name)
                      ELSE postChange.Value
        oldValue   == IF recordType = TypeCNAME /\ oldValue0 # Empty /\ preChange # Nil
                      THEN adjustCNAMEValue(oldValue0, Deref(preChange).FQDN,
                                            Deref(preChange).Name)
                      ELSE oldValue0
        script     == ConstructNSUpdateScript(Host, Port, fqdn, recordType,
                                              oldValue, newValue, "updated", ttl)
        preData    == snapshotToRecordData(preChange)
        postData   == snapshotToRecordData(Ref(postChange))
    IN  IF updatedSnapshotsMissing(payload)
        THEN [resp |-> SnapshotsMissing, fwd |-> Nil, ptr |-> Nil]
        ELSE [resp |-> Accepted,
              fwd  |-> Ref([fqdn |-> fqdn, script |-> script]),
              ptr  |-> IF updatedNeedsPTR(recordType, preData, postData)
                       THEN Ref([event |-> "updated", preData |-> preData,
                                 postData |-> postData])
                       ELSE Nil]

handleUpdatedEvent(payload) ==
    LET preChange  == Deref(payload.Snapshots).PreChange
        postChange == Deref(Deref(payload.Snapshots).PostChange)
        fqdn       == postChange.FQDN
        recordType == ToUpper(postChange.Type)
        ttl        == HandlerTTL(postChange.TTL)
        oldValue0  == IF preChange # Nil THEN Deref(preChange).Value ELSE Empty
        newValue   == IF recordType = TypeCNAME
                      THEN adjustCNAMEValue(postChange.Value, fqdn, postChange.Name)
                      ELSE postChange.Value
        oldValue   == IF recordType = TypeCNAME /\ oldValue0 # Empty /\ preChange # Nil
                      THEN adjustCNAMEValue(oldValue0, Deref(preChange).FQDN,
                                            Deref(preChange).Name)
                      ELSE oldValue0
        script     == ConstructNSUpdateScript(Host, Port, fqdn, recordType,
                                              oldValue, newValue, "updated", ttl)
        preData    == snapshotToRecordData(preChange)
        postData   == snapshotToRecordData(Ref(postChange))
    IN  IF updatedSnapshotsMissing(payload)
        THEN [resp |-> SnapshotsMissing, fwd |-> Nil, ptr |-> Nil]
        ELSE [resp |-> Accepted,
              fwd  |-> Ref([fqdn |-> fqdn, script |-> script]),
              ptr  |-> IF updatedNeedsPTR(recordType, preData, postData)
                       THEN Ref([event |-> "updated", preData |-> preData,
                                 postData |-> postData])
                       ELSE Nil]

----------------------------------------------------------------------------
(* webhook_handler.go, webhook_payload.go *)

EvCreated == <<"c","r","e","a","t","e","d">>

EvUpdated == <<"u","p","d","a","t","e","d">>

EvDeleted == <<"d","e","l","e","t","e","d">>

\* WebhookPayload.Validate: "Add validation logic as needed", returns nil
Validate(payload) == TRUE

\* a request is its method and its body; a body json.Unmarshal rejects is Nil
webhookHandler(r) ==
    LET payload   == Deref(r.Body)
        eventType == ToLower(payload.Event)
        Reject(answer) == [resp |-> answer, fwd |-> Nil, ptr |-> Nil]
    IN  IF r.Method # "POST"
        THEN Reject(Respond(StatusMethodNotAllowed, "Invalid request method"))
        ELSE IF r.Body = Nil
        THEN Reject(Respond(StatusBadRequest, "Invalid JSON payload"))
        ELSE IF ~Validate(payload)
        THEN Reject(Respond(StatusBadRequest, "Invalid payload data"))
        ELSE IF eventType = EvCreated THEN handleCreatedEvent(payload)
        ELSE IF eventType = EvDeleted THEN handleDeletedEvent(payload)
        ELSE IF eventType = EvUpdated THEN handleUpdatedEvent(payload)
        ELSE Reject(Respond(StatusBadRequest, "Unsupported event type"))

----------------------------------------------------------------------------
(* concurrency.go: RecordLockManager *)

\* a mutex is named by the key it was allocated for and by how many mutexes
\* were allocated for that key before it
NoMutex == <<>>

NewMutex(key) == <<key, Cardinality({m \in DOMAIN mutexes : m[1] = key}) + 1>>

\* LoadOrStore as a Store: the new mutex replaces the one other goroutines hold
LoadOrStoreAlwaysStores(key) ==
    [locks   |-> (key :> NewMutex(key)) @@ locks,
     mutexes |-> mutexes @@ (NewMutex(key) :> FALSE),
     mutex   |-> NewMutex(key)]

\* sync.Map.LoadOrStore(key, &sync.Mutex{}): the registry after the call and
\* the mutex the call returns
LoadOrStore(key) ==
    IF key \in DOMAIN locks
    THEN [locks |-> locks, mutexes |-> mutexes, mutex |-> locks[key]]
    ELSE [locks   |-> locks @@ (key :> NewMutex(key)),
          mutexes |-> mutexes @@ (NewMutex(key) :> FALSE),
          mutex   |-> NewMutex(key)]

\* sync.Mutex.Lock returns only when the mutex is not locked
CanLock(m) == ~mutexes[m]

\* RecordLockManager.ReleaseLock: the mutexes after the call; unlocking a mutex
\* that is not locked is a fatal error of the Go runtime
ReleaseLock(key) ==
    IF key \in DOMAIN locks
    THEN [mutexes |-> [mutexes EXCEPT ![locks[key]] = FALSE],
          fatal   |-> ~mutexes[locks[key]]]
    ELSE [mutexes |-> mutexes, fatal |-> FALSE]

----------------------------------------------------------------------------
(* ptr_handler.go: the local computations of the handlePTRUpdate goroutine *)

PTRTTL == 300

\* the goroutine goes on when neither value is a valid IP
ptrNamesOfNeverSkips(oldIP, newIP) ==
    [skip       |-> FALSE,
     oldPTRName |-> IF isValidIP(oldIP) THEN reverseDNSName(oldIP) ELSE Empty,
     newPTRName |-> IF isValidIP(newIP) THEN reverseDNSName(newIP) ELSE Empty]

\* oldPTRName and newPTRName; skip: neither value is a valid IP
ptrNamesOf(oldIP, newIP) ==
    [skip       |-> ~isValidIP(oldIP) /\ ~isValidIP(newIP),
     oldPTRName |-> IF isValidIP(oldIP) THEN reverseDNSName(oldIP) ELSE Empty,
     newPTRName |-> IF isValidIP(newIP) THEN reverseDNSName(newIP) ELSE Empty]

ptrNames(preData, postData) ==
    ptrNamesOf(IF preData # Nil THEN Deref(preData).Value ELSE Empty,
               IF postData # Nil THEN Deref(postData).Value ELSE Empty)

\* the script of an update adds the new PTR record before it deletes the old
ptrScriptAddFirst(event, preData, postData, oldPTRName, newPTRName) ==
    CASE event = "created" ->
            IF postData # Nil
            THEN Ref(ConstructPTRUpdateScript(Host, Port, newPTRName,
                                              Deref(postData).FQDN, "created", PTRTTL))
            ELSE Nil
      [] event = "deleted" ->
            IF preData # Nil
            THEN Ref(ConstructPTRUpdateScript(Host, Port, oldPTRName,
                                              Deref(preData).FQDN, "deleted", 0))
            ELSE Nil
      [] event = "updated" ->
            Ref((IF newPTRName # Empty /\ postData # Nil
                 THEN ConstructPTRUpdateScript(Host, Port, newPTRName,
                                               Deref(postData).FQDN, "created", PTRTTL)
                 ELSE <<>>)
                \o
                (IF oldPTRName # Empty /\ preData # Nil
                 THEN ConstructPTRUpdateScript(Host, Port, oldPTRName,
                                               Deref(preData).FQDN, "deleted", 0)
                 ELSE <<>>))
      [] OTHER -> Ref(<<>>)

\* the script of an update is written for both sides whatever their names
ptrScriptBothSides(event, preData, postData, oldPTRName, newPTRName) ==
    CASE event = "created" ->
            IF postData # Nil
            THEN Ref(ConstructPTRUpdateScript(Host, Port, newPTRName,
                                              Deref(postData).FQDN, "created", PTRTTL))
            ELSE Nil
      [] event = "deleted" ->
            IF preData # Nil
            THEN Ref(ConstructPTRUpdateScript(Host, Port, oldPTRName,
                                              Deref(preData).FQDN, "deleted", 0))
            ELSE Nil
      [] event = "updated" ->
            Ref((IF preData # Nil
                 THEN ConstructPTRUpdateScript(Host, Port, oldPTRName,
                                               Deref(preData).FQDN, "deleted", 0)
                 ELSE <<>>)
                \o
                (IF postData # Nil
                 THEN ConstructPTRUpdateScript(Host, Port, newPTRName,
                                               Deref(postData).FQDN, "created", PTRTTL)
                 ELSE <<>>))
      [] OTHER -> Ref(<<>>)

\* the PTR record of a deleted address is added instead of deleted
ptrScriptDeletedAdds(event, preData, postData, oldPTRName, newPTRName) ==
    IF event = "deleted" /\ preData # Nil
    THEN Ref(ConstructPTRUpdateScript(Host, Port, oldPTRName,
                                      Deref(preData).FQDN, "created", PTRTTL))
    ELSE Ref(<<>>)

\* the PTR add carries the TTL of the forward record
ptrScriptRecordTTL(event, preData, postData, oldPTRName, newPTRName) ==
    CASE event = "created" ->
            IF postData # Nil
            THEN Ref(ConstructPTRUpdateScript(Host, Port, newPTRName,
                                              Deref(postData).FQDN, "created",
                                              HandlerTTL(Deref(postData).TTL)))
            ELSE Nil
      [] event = "deleted" ->
            IF preData # Nil
            THEN Ref(ConstructPTRUpdateScript(Host, Port, oldPTRName,
                                              Deref(preData).FQDN, "deleted", 0))
            ELSE Nil
      [] event = "updated" ->
            Ref((IF oldPTRName # Empty /\ preData # Nil
                 THEN ConstructPTRUpdateScript(Host, Port, oldPTRName,
                                               Deref(preData).FQDN, "deleted", 0)
                 ELSE <<>>)
                \o
                (IF newPTRName # Empty /\ postData # Nil
                 THEN ConstructPTRUpdateScript(Host, Port, newPTRName,
                                               Deref(postData).FQDN, "created",
                                               HandlerTTL(Deref(postData).TTL))
                 ELSE <<>>))
      [] OTHER -> Ref(<<>>)

\* the script of the switch on event; Nil where the goroutine returns early
ptrScript(event, preData, postData, oldPTRName, newPTRName) ==
    CASE event = "created" ->
            IF postData # Nil
            THEN Ref(ConstructPTRUpdateScript(Host, Port, newPTRName,
                                              Deref(postData).FQDN, "created", PTRTTL))
            ELSE Nil
      [] event = "deleted" ->
            IF preData # Nil
            THEN Ref(ConstructPTRUpdateScript(Host, Port, oldPTRName,
                                              Deref(preData).FQDN, "deleted", 0))
            ELSE Nil
      [] event = "updated" ->
            Ref((IF oldPTRName # Empty /\ preData # Nil
                 THEN ConstructPTRUpdateScript(Host, Port, oldPTRName,
                                               Deref(preData).FQDN, "deleted", 0)
                 ELSE <<>>)
                \o
                (IF newPTRName # Empty /\ postData # Nil
                 THEN ConstructPTRUpdateScript(Host, Port, newPTRName,
                                               Deref(postData).FQDN, "created", PTRTTL)
                 ELSE <<>>))
      [] OTHER -> Ref(<<>>)

----------------------------------------------------------------------------
(* The goroutines *)

\* the number of requests of a run
NumRequests == 2

\* no call of reverseDNSName on its own is made
NoCall == [pc |-> "none", ip |-> Empty, name |-> Empty]

Reqs == 1..NumRequests

NoFwd == [pc |-> "none", fqdn |-> Empty, script |-> <<>>,
          mutex |-> NoMutex, defers |-> <<>>, res |-> "none"]

NoPtr == [pc |-> "none", event |-> "", preData |-> Nil, postData |-> Nil,
          oldPTRName |-> Empty, newPTRName |-> Empty, script |-> <<>>,
          mutex |-> NoMutex, defers |-> <<>>, res |-> "none"]

\* the handler answers only once the lock of the event's name is free
WebhookWaitsForLock(r) ==
    /\ ~fatal
    /\ resp[r] = NoResponse
    /\ \E h \in {webhookHandler(requests[r])} :
           /\ h.fwd # Nil =>
                 ~(/\ Deref(h.fwd).fqdn \in DOMAIN locks
                   /\ mutexes[locks[Deref(h.fwd).fqdn]])
           /\ resp' = [resp EXCEPT ![r] = h.resp]
           /\ fwd' = [fwd EXCEPT ![r] =
                        IF h.fwd = Nil THEN NoFwd
                        ELSE [NoFwd EXCEPT !.pc = "AcquireLock",
                                           !.fqdn = Deref(h.fwd).fqdn,
                                           !.script = Deref(h.fwd).script]]
           /\ ptr' = [ptr EXCEPT ![r] =
                        IF h.ptr = Nil THEN NoPtr
                        ELSE [NoPtr EXCEPT !.pc = "start",
                                           !.event = Deref(h.ptr).event,
                                           !.preData = Deref(h.ptr).preData,
                                           !.postData = Deref(h.ptr).postData]]
    /\ UNCHANGED <<requests, call, locks, mutexes, fatal>>

\* one request is answered: the whole of webhookHandler and of the event
\* handler it calls, `go func()` statements included
Webhook(r) ==
    /\ ~fatal
    /\ resp[r] = NoResponse
    /\ \E h \in {webhookHandler(requests[r])} :
           /\ resp' = [resp EXCEPT ![r] = h.resp]
           /\ fwd' = [fwd EXCEPT ![r] =
                        IF h.fwd = Nil THEN NoFwd
                        ELSE [NoFwd EXCEPT !.pc = "AcquireLock",
                                           !.fqdn = Deref(h.fwd).fqdn,
                                           !.script = Deref(h.fwd).script]]
           /\ ptr' = [ptr EXCEPT ![r] =
                        IF h.ptr = Nil THEN NoPtr
                        ELSE [NoPtr EXCEPT !.pc = "start",
                                           !.event = Deref(h.ptr).event,
                                           !.preData = Deref(h.ptr).preData,
                                           !.postData = Deref(h.ptr).postData]]
    /\ UNCHANGED <<requests, call, locks, mutexes, fatal>>

\* forward goroutine, AcquireLock(fqdn): LoadOrStore
FwdLoadOrStore(r) ==
    /\ ~fatal
    /\ fwd[r].pc = "AcquireLock"
    /\ LET got == LoadOrStore(fwd[r].fqdn)
       IN  /\ locks' = got.locks
           /\ mutexes' = got.mutexes
           /\ fwd' = [fwd EXCEPT ![r].pc = "Lock", ![r].mutex = got.mutex]
    /\ UNCHANGED <<requests, call, resp, ptr, fatal>>

\* mutex.Lock returns for the goroutines of a name in the order of their
\* requests
FwdLockInArrivalOrder(r) ==
    /\ ~fatal
    /\ fwd[r].pc = "Lock"
    /\ CanLock(fwd[r].mutex)
    /\ \A q \in Reqs : (q < r /\ fwd[q].fqdn = fwd[r].fqdn) =>
                          fwd[q].pc \notin {"AcquireLock", "Lock"}
    /\ mutexes' = [mutexes EXCEPT ![fwd[r].mutex] = TRUE]
    /\ fwd' = [fwd EXCEPT ![r].pc = "ExecuteNSUpdate",
                          ![r].defers = Append(@, fwd[r].fqdn)]
    /\ UNCHANGED <<requests, call, resp, ptr, locks, fatal>>

\* forward goroutine, AcquireLock(fqdn): mutex.Lock returns, ReleaseLock is
\* deferred and ExecuteNSUpdate is called
FwdLock(r) ==
    /\ ~fatal
    /\ fwd[r].pc = "Lock"
    /\ CanLock(fwd[r].mutex)
    /\ mutexes' = [mutexes EXCEPT ![fwd[r].mutex] = TRUE]
    /\ fwd' = [fwd EXCEPT ![r].pc = "ExecuteNSUpdate",
                          ![r].defers = Append(@, fwd[r].fqdn)]
    /\ UNCHANGED <<requests, call, resp, ptr, locks, fatal>>

\* the lock is released only after a successful update
RunDeferredOnSuccessOnly(t) ==
    LET n   == Len(t.defers)
        rel == ReleaseLock(t.defers[n])
    IN  [mutexes |-> IF t.res = "err" THEN mutexes ELSE rel.mutexes,
         fatal   |-> IF t.res = "err" THEN fatal ELSE rel.fatal,
         task    |-> [t EXCEPT !.defers = SubSeq(@, 1, n - 1),
                               !.pc = IF n = 1 THEN "done" ELSE "defer"]]

\* the deferred ReleaseLock runs but stays on the stack
RunDeferredKeepsDefer(t) ==
    LET n   == Len(t.defers)
        rel == ReleaseLock(t.defers[n])
    IN  [mutexes |-> rel.mutexes,
         fatal   |-> rel.fatal,
         task    |-> [t EXCEPT !.pc = "defer"]]

\* the deferred ReleaseLock calls of a goroutine run, last deferred first:
\* the outcome of running the one on top of the stack
RunDeferred(t) ==
    LET n   == Len(t.defers)
        rel == ReleaseLock(t.defers[n])
    IN  [mutexes |-> rel.mutexes,
         fatal   |-> rel.fatal,
         task    |-> [t EXCEPT !.defers = SubSeq(@, 1, n - 1),
                               !.pc = IF n = 1 THEN "done" ELSE "defer"]]

\* a failed ExecuteNSUpdate is called again
FwdExecuteReturnRetries(r) ==
    /\ ~fatal
    /\ fwd[r].pc = "ExecuteNSUpdate"
    /\ \E res \in {"ok", "err"} :
          LET d == RunDeferred([fwd[r] EXCEPT !.res = res])
          IN  IF res = "err"
              THEN /\ fwd' = [fwd EXCEPT ![r].res = res]
                   /\ UNCHANGED <<mutexes, fatal>>
              ELSE /\ mutexes' = d.mutexes
                   /\ fatal' = d.fatal
                   /\ fwd' = [fwd EXCEPT ![r] = d.task]
    /\ UNCHANGED <<requests, call, resp, ptr, locks>>

\* forward goroutine: ExecuteNSUpdate returns nil or an error, the outcome is
\* logged and the deferred ReleaseLock(fqdn) runs
FwdExecuteReturn(r) ==
    /\ ~fatal
    /\ fwd[r].pc = "ExecuteNSUpdate"
    /\ \E res \in {"ok", "err"} :
          LET d == RunDeferred([fwd[r] EXCEPT !.res = res])
          IN  /\ mutexes' = d.mutexes
              /\ fatal' = d.fatal
              /\ fwd' = [fwd EXCEPT ![r] = d.task]
    /\ UNCHANGED <<requests, call, resp, ptr, locks>>

\* the script depends on the registry: the delete of the old PTR record is
\* left out once three names are registered
PtrBuildReadsRegistry(t) ==
    LET script == ptrScript(t.event, t.preData, t.postData,
                            IF Cardinality(DOMAIN locks) > 2 THEN Empty ELSE t.oldPTRName,
                            t.newPTRName)
    IN  IF script = Nil \/ Deref(script) = <<>>
        THEN [t EXCEPT !.pc = IF t.defers = <<>> THEN "done" ELSE "defer"]
        ELSE [t EXCEPT !.pc = "ExecuteNSUpdate", !.script = Deref(script)]

\* PTR goroutine, all locks taken: the script is built and ExecuteNSUpdate is
\* called, unless the goroutine returns early
PtrBuild(t) ==
    LET script == ptrScript(t.event, t.preData, t.postData, t.oldPTRName, t.newPTRName)
    IN  IF script = Nil \/ Deref(script) = <<>>
        THEN [t EXCEPT !.pc = IF t.defers = <<>> THEN "done" ELSE "defer"]
        ELSE [t EXCEPT !.pc = "ExecuteNSUpdate", !.script = Deref(script)]

\* the newPTRName lock is never taken
PtrAfterOldSkipsNew(t) == PtrBuild(t)

\* the lock of newPTRName is asked for also when it is the name already locked
PtrAfterOldLocksEqualName(t) ==
    IF t.newPTRName # Empty
    THEN [t EXCEPT !.pc = "AcquireNew"]
    ELSE PtrBuild(t)

\* PTR goroutine, after the oldPTRName lock: the newPTRName lock is taken only
\* if the name is not empty and differs from oldPTRName
PtrAfterOld(t) ==
    IF t.newPTRName # Empty /\ t.newPTRName # t.oldPTRName
    THEN [t EXCEPT !.pc = "AcquireNew"]
    ELSE PtrBuild(t)

\* the PTR goroutine starts once the forward update has succeeded
PtrStartAfterForward(r, n) ==
    /\ ~fatal
    /\ ptr[r].pc = "start"
    /\ fwd[r].res = "ok"
    /\ \E t \in {[ptr[r] EXCEPT !.oldPTRName = n.oldPTRName,
                                !.newPTRName = n.newPTRName]} :
          ptr' = [ptr EXCEPT ![r] =
                    IF n.skip THEN [ptr[r] EXCEPT !.pc = "done"]
                    ELSE IF n.oldPTRName # Empty THEN [t EXCEPT !.pc = "AcquireOld"]
                    ELSE PtrAfterOld(t)]
    /\ UNCHANGED <<requests, call, resp, fwd, locks, mutexes, fatal>>

\* PTR goroutine, the IPs validated and the PTR names n derived: the
\* goroutine returns, or goes on to its first lock
PtrStartWith(r, n) ==
    /\ ~fatal
    /\ ptr[r].pc = "start"
    /\ \E t \in {[ptr[r] EXCEPT !.oldPTRName = n.oldPTRName,
                                !.newPTRName = n.newPTRName]} :
          ptr' = [ptr EXCEPT ![r] =
                    IF n.skip THEN [ptr[r] EXCEPT !.pc = "done"]
                    ELSE IF n.oldPTRName # Empty THEN [t EXCEPT !.pc = "AcquireOld"]
                    ELSE PtrAfterOld(t)]
    /\ UNCHANGED <<requests, call, resp, fwd, locks, mutexes, fatal>>

\* PTR goroutine: the IPs are validated and the PTR names derived
PtrStart(r) ==
    /\ ptr[r].pc = "start"
    /\ \E n \in {ptrNames(ptr[r].preData, ptr[r].postData)} : PtrStartWith(r, n)

\* the PTR goroutine locks the name of the forward record
PtrKeyIsForwardName(t) ==
    IF t.postData # Nil THEN Deref(t.postData).FQDN ELSE Deref(t.preData).FQDN

PtrKey(t) == IF t.pc \in {"AcquireOld", "LockOld"} THEN t.oldPTRName ELSE t.newPTRName

\* PTR goroutine, AcquireLock(oldPTRName) or AcquireLock(newPTRName): LoadOrStore
PtrLoadOrStore(r) ==
    /\ ~fatal
    /\ ptr[r].pc \in {"AcquireOld", "AcquireNew"}
    /\ LET got == LoadOrStore(PtrKey(ptr[r]))
       IN  /\ locks' = got.locks
           /\ mutexes' = got.mutexes
           /\ ptr' = [ptr EXCEPT ![r].mutex = got.mutex,
                                 ![r].pc = IF @ = "AcquireOld" THEN "LockOld" ELSE "LockNew"]
    /\ UNCHANGED <<requests, call, resp, fwd, fatal>>

\* PTR goroutine, AcquireLock: mutex.Lock returns and ReleaseLock is deferred
PtrLock(r) ==
    /\ ~fatal
    /\ ptr[r].pc \in {"LockOld", "LockNew"}
    /\ CanLock(ptr[r].mutex)
    /\ mutexes' = [mutexes EXCEPT ![ptr[r].mutex] = TRUE]
    /\ LET t == [ptr[r] EXCEPT !.defers = Append(@, PtrKey(ptr[r]))]
       IN  ptr' = [ptr EXCEPT ![r] =
                     IF ptr[r].pc = "LockOld" THEN PtrAfterOld(t) ELSE PtrBuild(t)]
    /\ UNCHANGED <<requests, call, resp, fwd, locks, fatal>>

\* PTR goroutine: ExecuteNSUpdate returns nil or an error, the outcome is
\* logged and the ReleaseLock deferred last runs
PtrExecuteReturn(r) ==
    /\ ~fatal
    /\ ptr[r].pc = "ExecuteNSUpdate"
    /\ \E res \in {"ok", "err"} :
          LET d == RunDeferred([ptr[r] EXCEPT !.res = res])
          IN  /\ mutexes' = d.mutexes
              /\ fatal' = d.fatal
              /\ ptr' = [ptr EXCEPT ![r] = d.task]
    /\ UNCHANGED <<requests, call, resp, fwd, locks>>

\* PTR goroutine: a ReleaseLock deferred earlier runs
PtrRelease(r) ==
    /\ ~fatal
    /\ ptr[r].pc = "defer"
    /\ LET d == RunDeferred(ptr[r])
       IN  /\ mutexes' = d.mutexes
           /\ fatal' = d.fatal
           /\ ptr' = [ptr EXCEPT ![r] = d.task]
    /\ UNCHANGED <<requests, call, resp, fwd, locks>>

----------------------------------------------------------------------------
(* The requests of a run *)

FqdnA == <<"a", ".", "z", ".">>

FqdnB == <<"b", ".", "z", ".">>

FqdnC == <<"c", ".", "z", ".">>

Ip1 == <<"1","0",".","0",".","0",".","1">>

Ip2 == <<"1","0",".","0",".","0",".","2">>

Ip6 == <<"2","0","0","1",":","d","b","8",":",":","1">>

NotAnIP == <<"n","o","t","-","a","n","-","i","p">>

ZoneZ == <<"z">>

\* a RecordData of the payload (data)
Data(name, fqdn, type, value, ttl, disablePTR) ==
    [ID |-> 7, Name |-> name, FQDN |-> fqdn, Type |-> type, Value |-> value,
     TTL |-> ttl, DisablePTR |-> disablePTR, Zone |-> [ID |-> 1, Name |-> ZoneZ]]

\* a Snapshot of the payload (snapshots.prechange, snapshots.postchange)
Snap(name, fqdn, type, value, ttl, disablePTR) ==
    [ID |-> 7, Name |-> name, FQDN |-> fqdn, Type |-> type, Value |-> value,
     TTL |-> ttl, DisablePTR |-> disablePTR, Zone |-> 1]

Snapshots(pre, post) == Ref([PreChange |-> pre, PostChange |-> post])

Post(event, data, snapshots) ==
    [Method |-> "POST",
     Body |-> Ref([Event |-> event, Data |-> data, Snapshots |-> snapshots])]

DataA1 == Data(<<"a">>, FqdnA, TypeA, Ip1, Nil, FALSE)

SnapA1 == Snap(<<"a">>, FqdnA, TypeA, Ip1, Nil, FALSE)

SnapA2 == Snap(<<"a">>, FqdnA, TypeA, Ip2, Ref(120), FALSE)

SnapB1 == Snap(<<"b">>, FqdnB, TypeA, Ip1, Nil, FALSE)

SnapB2 == Snap(<<"b">>, FqdnB, TypeA, Ip2, Nil, FALSE)

\* the requests of the concurrent runs: events on the same and on different
\* names, two of them updates whose old and new IPs are swapped
ConcurrentPool ==
    << Post(EvCreated, DataA1, Nil),
       Post(EvUpdated, DataA1, Snapshots(Ref(SnapA1), Ref(SnapA2))),
       Post(EvUpdated, DataA1, Snapshots(Ref(SnapB2), Ref(SnapB1))),
       Post(EvDeleted, DataA1, Snapshots(Ref(SnapA1), Nil)) >>

\* the runs of n requests drawn from a pool; requests are handled in any
\* order, so a run is taken once whatever the order of its requests
Runs(pool, n) ==
    { [r \in 1..n |-> pool[c[r]]] :
        c \in { d \in [1..n -> 1..Len(pool)] : \A r \in 1..(n - 1) : d[r] <= d[r + 1] } }

Init ==
    /\ requests \in Runs(ConcurrentPool, NumRequests)
    /\ resp = [r \in Reqs |-> NoResponse]
    /\ fwd = [r \in Reqs |-> NoFwd]
    /\ ptr = [r \in Reqs |-> NoPtr]
    /\ locks = <<>>
    /\ mutexes = <<>>
    /\ fatal = FALSE
    /\ call = NoCall

Next ==
    \E r \in Reqs :
        \/ Webhook(r)
        \/ FwdLoadOrStore(r)
        \/ FwdLock(r)
        \/ FwdExecuteReturn(r)
        \/ PtrStart(r)
        \/ PtrLoadOrStore(r)
        \/ PtrLock(r)
        \/ PtrExecuteReturn(r)
        \/ PtrRelease(r)

Spec == Init /\ [][Next]_vars

----------------------------------------------------------------------------
(* Runs of one event: the first request is any request of EventPool, the   *)
(* others are requests the handler turns away for their method.            *)

\* requests on one name: an update and a deletion of the record a.z.
AckPool == <<ConcurrentPool[2], ConcurrentPool[4]>>

InitAck ==
    /\ requests \in Runs(AckPool, NumRequests)
    /\ resp = [r \in Reqs |-> NoResponse]
    /\ fwd = [r \in Reqs |-> NoFwd]
    /\ ptr = [r \in Reqs |-> NoPtr]
    /\ locks = <<>>
    /\ mutexes = <<>>
    /\ fatal = FALSE
    /\ call = NoCall

\* the runs on one name in which the server goes on answering requests: each
\* handler runs in a goroutine of its own that the scheduler does not starve.
\* Nothing is assumed of the goroutines the handlers start.
SpecAck == InitAck /\ [][Next]_vars /\ \A r \in Reqs : WF_vars(Webhook(r))

HostH == <<"h">>

HostHZ == <<"h", ".", "z", ".">>

HostDotSpaced == <<" ", "h", ".", " ">>

\* name, fqdn, type, value, ttl, disable_ptr of the records of the pool
Records ==
    << <<<<"a">>, FqdnA, TypeA, Ip1, Nil, FALSE>>,
       <<<<"a">>, FqdnA, TypeA, Ip2, Ref(120), FALSE>>,
       <<<<"b">>, FqdnB, <<"a">>, Ip1, Ref(0), TRUE>>,
       <<<<"c">>, FqdnC, TypeCNAME, HostH, Ref(-1), FALSE>>,
       <<<<"c">>, FqdnC, <<"c","n","a","m","e">>, HostHZ, Nil, FALSE>>,
       <<<<"a">>, FqdnA, TypeA, NotAnIP, Nil, FALSE>>,
       <<Empty, Empty, TypeA, Ip1, Nil, FALSE>>,
       <<<<"a">>, FqdnA, TypeAAAA, Ip6, Ref(120), FALSE>>,
       <<<<"q">>, FqdnC, TypeCNAME, HostH, Nil, FALSE>>,
       <<<<"c", ".">>, FqdnC, TypeCNAME, HostH, Nil, FALSE>>,
       <<Empty, Empty, TypeCNAME, HostH, Nil, FALSE>>,
       <<<<"c">>, FqdnC, TypeCNAME, HostDotSpaced, Nil, FALSE>> >>

DataOf(f) == Data(f[1], f[2], f[3], f[4], f[5], f[6])

SnapOf(f) == Snap(f[1], f[2], f[3], f[4], f[5], f[6])

EvCreatedCap == <<"C","r","e","a","t","e","d">>

EvUpdatedUpper == <<"U","P","D","A","T","E","D">>

EvDeletedMixed == <<"D","e","L","e","T","e","D">>

EvRenamed == <<"r","e","n","a","m","e","d">>

EvCreate == <<"c","r","e","a","t","e">>

EventNames ==
    { EvCreated, EvCreatedCap, EvUpdated, EvUpdatedUpper, EvDeleted, EvDeletedMixed,
      EvRenamed, EvCreate, Empty }

SnapshotPool == {Nil} \cup { Ref(SnapOf(Records[i])) : i \in 1..Len(Records) }

EventPool ==
    { Post(e, DataOf(Records[i]), sn) :
        e \in EventNames, i \in 1..Len(Records),
        sn \in {Nil, Snapshots(Ref(SnapOf(Records[4])), Ref(SnapOf(Records[3])))} }
    \cup
    { Post(e, DataOf(Records[i]), Snapshots(pre, post)) :
        e \in EventNames, i \in {2, 5}, pre \in SnapshotPool, post \in SnapshotPool }
    \cup
    { [Method |-> "GET", Body |-> Nil], [Method |-> "POST", Body |-> Nil] }

InitSingle ==
    /\ requests \in { [r \in Reqs |-> IF r = 1 THEN q ELSE [Method |-> "GET", Body |-> Nil]] :
                        q \in EventPool }
    /\ resp = [r \in Reqs |-> NoResponse]
    /\ fwd = [r \in Reqs |-> NoFwd]
    /\ ptr = [r \in Reqs |-> NoPtr]
    /\ locks = <<>>
    /\ mutexes = <<>>
    /\ fatal = FALSE
    /\ call = NoCall

SpecSingle == InitSingle /\ [][Next]_vars

-----------------------------------------------------------------------------
(* Runs on one name in which the handler of the first request has returned *)
(* before the handler of any other request starts                          *)

\* the goroutines a handler has started when it returns
StartedFwd(h) ==
    IF h.fwd = Nil THEN NoFwd
    ELSE [NoFwd EXCEPT !.pc = "AcquireLock",
                       !.fqdn = Deref(h.fwd).fqdn,
                       !.script = Deref(h.fwd).script]

StartedPtr(h) ==
    IF h.ptr = Nil THEN NoPtr
    ELSE [NoPtr EXCEPT !.pc = "start",
                       !.event = Deref(h.ptr).event,
                       !.preData = Deref(h.ptr).preData,
                       !.postData = Deref(h.ptr).postData]

\* the state in which webhookHandler has returned for request 1, its
\* goroutines started and not yet scheduled, and for no other request
InitOrdered ==
    /\ requests \in [Reqs -> {AckPool[1], AckPool[2]}]
    /\ resp = [r \in Reqs |-> IF r = 1 THEN webhookHandler(requests[1]).resp
                               ELSE NoResponse]
    /\ fwd = [r \in Reqs |-> IF r = 1 THEN StartedFwd(webhookHandler(requests[1]))
                              ELSE NoFwd]
    /\ ptr = [r \in Reqs |-> IF r = 1 THEN StartedPtr(webhookHandler(requests[1]))
                              ELSE NoPtr]
    /\ locks = <<>>
    /\ mutexes = <<>>
    /\ fatal = FALSE
    /\ call = NoCall

SpecOrdered == InitOrdered /\ [][Next]_vars

-----------------------------------------------------------------------------
(* helpers.go: reverseDNSName called on its own, on dotted and colon       *)
(* strings of every shape                                                  *)

\* the fields of the dotted strings: decimal octets, a number above 255, a
\* leading zero, a letter, nothing
DottedFields == { <<"0">>, <<"1">>, <<"1","0">>, <<"2","5","5">>, <<"2","5","6">>,
                  <<"0","1">>, <<"x">>, Empty }

\* the groups of the colon strings: hex groups, a letter that is not hex, a
\* group of five digits
ColonGroups == { <<"0">>, <<"1">>, <<"a","0","0">>, <<"f","f","f","f">>,
                 <<"2","0","0","1">>, <<"D","B","8">>, <<"g">>, <<"1","2","3","4","5">> }

COLON == <<":">>

DottedPool ==
    { Join(f, DOT) : f \in [1..4 -> DottedFields] }
    \cup { Join(f, DOT) : f \in [1..3 -> {<<"1">>, <<"1","0">>}] }
    \cup { Join(f, DOT) : f \in [1..5 -> {<<"1">>, <<"1","0">>}] }

ColonPool ==
    { Join(g, COLON) : g \in [1..8 -> {<<"0">>, <<"f","f","f","f">>}] }
    \cup { COLON \o COLON \o Join(g, COLON) : g \in [1..3 -> ColonGroups] }
    \cup { g[1] \o COLON \o COLON \o g[2] : g \in [1..2 -> ColonGroups] }
    \cup { COLON \o COLON \o <<"f","f","f","f">> \o COLON \o Join(f, DOT) :
             f \in [1..4 -> {<<"1">>, <<"1","0">>, <<"2","5","6">>}] }
    \cup { COLON \o COLON, Ip6, <<"1",":",":","2",":",":","3">>, <<"1",":","2">> }

WordPool == { Empty, NotAnIP, <<"1">>, <<"1","0">>, <<" ">> \o Ip1, Ip1 \o <<" ">> }

ReversePool == DottedPool \cup ColonPool \cup WordPool

InitReverse ==
    /\ requests = [r \in Reqs |-> [Method |-> "GET", Body |-> Nil]]
    /\ resp = [r \in Reqs |-> NoResponse]
    /\ fwd = [r \in Reqs |-> NoFwd]
    /\ ptr = [r \in Reqs |-> NoPtr]
    /\ locks = <<>>
    /\ mutexes = <<>>
    /\ fatal = FALSE
    /\ call \in { [pc |-> "called", ip |-> s, name |-> Empty] : s \in ReversePool }

\* the call returns what reverseDNSName computes for its argument
ReverseDNSName ==
    /\ call.pc = "called"
    /\ call' = [call EXCEPT !.pc = "returned", !.name = reverseDNSName(call.ip)]
    /\ UNCHANGED <<requests, resp, fwd, ptr, locks, mutexes, fatal>>

NextReverse == ReverseDNSName

SpecReverse == InitReverse /\ [][NextReverse]_vars

----------------------------------------------------------------------------
(* Properties *)

Executing(t) == t.pc = "ExecuteNSUpdate"

\* the keys whose ReleaseLock a goroutine has deferred: the locks it holds
Held(t) == { t.defers[i] : i \in 1..Len(t.defers) }

\* the add and delete lines of a script, in order
IsOp(line) == line.op \in {"add", "delete"}

Ops(script) == SelectSeq(script, IsOp)

OpNames(script) == { Ops(script)[i].name : i \in 1..Len(Ops(script)) }

\* the PTR names a PTR goroutine works on
PtrNamesUsed(t) == {t.oldPTRName, t.newPTRName} \ {Empty}

Locked(key) == key \in DOMAIN locks /\ mutexes[locks[key]]

\* C1: no two forward goroutines for the same FQDN are between AcquireLock and
\* ReleaseLock, that is inside ExecuteNSUpdate, at the same time, whatever the
\* kinds of their events.
C1_ForwardMutualExclusion ==
    \A r1, r2 \in Reqs :
        (r1 # r2 /\ Executing(fwd[r1]) /\ Executing(fwd[r2]))
            => fwd[r1].fqdn # fwd[r2].fqdn

\* a forward goroutine is inside ExecuteNSUpdate while the forward goroutine
\* of an event of another kind waits for the lock of the same FQDN
C1_Witness ==
    \E r1, r2 \in Reqs :
        /\ r1 # r2
        /\ Deref(requests[r1].Body).Event # Deref(requests[r2].Body).Event
        /\ fwd[r1].fqdn = fwd[r2].fqdn
        /\ Executing(fwd[r1])
        /\ fwd[r2].pc = "Lock"
        /\ ~CanLock(fwd[r2].mutex)

\* C2: two PTR goroutines whose old and new PTR names are swapped never each
\* hold their old name's lock while waiting for the lock the other one holds.
C2_SwappedNamesNeverDeadlock ==
    \A r1, r2 \in Reqs :
        (/\ r1 # r2
         /\ ptr[r1].oldPTRName # Empty
         /\ ptr[r1].newPTRName # Empty
         /\ ptr[r1].oldPTRName # ptr[r1].newPTRName
         /\ ptr[r2].oldPTRName = ptr[r1].newPTRName
         /\ ptr[r2].newPTRName = ptr[r1].oldPTRName)
            => ~(/\ ptr[r1].pc = "LockNew" /\ Held(ptr[r1]) = {ptr[r1].oldPTRName}
                 /\ ptr[r2].pc = "LockNew" /\ Held(ptr[r2]) = {ptr[r2].oldPTRName})

\* C3: a PTR goroutine inside ExecuteNSUpdate holds the locked mutex of every
\* name its script adds or deletes, and no other PTR goroutine that works on
\* one of its PTR names is inside ExecuteNSUpdate at the same time.
C3_PTRMutualExclusion ==
    \A r1 \in Reqs :
        Executing(ptr[r1]) =>
            /\ OpNames(ptr[r1].script) # {}
            /\ OpNames(ptr[r1].script) \subseteq Held(ptr[r1])
            /\ \A k \in OpNames(ptr[r1].script) : Locked(k)
            /\ \A r2 \in Reqs \ {r1} :
                  Executing(ptr[r2]) =>
                      PtrNamesUsed(ptr[r1]) \cap PtrNamesUsed(ptr[r2]) = {}

\* a PTR goroutine holding both of its names is inside ExecuteNSUpdate while
\* another PTR goroutine waits for one of them
C3_Witness ==
    \E r1, r2 \in Reqs :
        /\ r1 # r2
        /\ Executing(ptr[r1])
        /\ Cardinality(Held(ptr[r1])) = 2
        /\ ptr[r2].pc \in {"LockOld", "LockNew"}
        /\ PtrKey(ptr[r2]) \in Held(ptr[r1])

----------------------------------------------------------------------------
(* Properties of the scripts and of the answers *)

CreatedNames == {EvCreated, EvCreatedCap}

UpdatedNames == {EvUpdated, EvUpdatedUpper}

DeletedNames == {EvDeleted, EvDeletedMixed}

\* request r is a POST whose body decodes to an event named by one of names
IsEvent(r, names) ==
    /\ requests[r].Method = "POST"
    /\ requests[r].Body # Nil
    /\ Deref(requests[r].Body).Event \in names

Payload(r) == Deref(requests[r].Body)

Before(r) == Deref(Payload(r).Snapshots).PreChange

After(r) == Deref(Payload(r).Snapshots).PostChange

Answered(r) == resp[r] # NoResponse

OpKinds(script) == [i \in 1..Len(Ops(script)) |-> Ops(script)[i].op]

\* the value of a record as the script carries it
ScriptValue(s) ==
    IF ToUpper(s.Type) = TypeCNAME /\ s.Value # Empty
    THEN adjustCNAMEValue(s.Value, s.FQDN, s.Name)
    ELSE s.Value

EffectiveTTL(s) == IF s.TTL # Nil /\ Deref(s.TTL) > 0 THEN Deref(s.TTL) ELSE 300

\* the request started no goroutine and no lock exists
NothingStarted(r) == fwd[r] = NoFwd /\ ptr[r] = NoPtr /\ locks = <<>> /\ mutexes = <<>>

\* C4: the forward script of an accepted Updated event holds exactly the
\* delete of the old value followed by the add of the new value, both on
\* after.fqdn with the after type, the add with the effective TTL.
C4_UpdatedDeleteThenAdd ==
    \A r \in Reqs :
        (IsEvent(r, UpdatedNames) /\ resp[r] = Accepted) =>
            /\ fwd[r].pc # "none"
            /\ Ops(fwd[r].script) =
                 << DeleteLine(Deref(After(r)).FQDN, ToUpper(Deref(After(r)).Type),
                               IF Before(r) = Nil THEN Empty
                               ELSE IF ToUpper(Deref(After(r)).Type) = TypeCNAME
                                       /\ Deref(Before(r)).Value # Empty
                               THEN adjustCNAMEValue(Deref(Before(r)).Value,
                                                     Deref(Before(r)).FQDN,
                                                     Deref(Before(r)).Name)
                               ELSE Deref(Before(r)).Value),
                    AddLine(Deref(After(r)).FQDN, EffectiveTTL(Deref(After(r))),
                            ToUpper(Deref(After(r)).Type), ScriptValue(Deref(After(r)))) >>

\* the script of an Updated event whose old and new values are equal is
\* handed to ExecuteNSUpdate
C4_Witness ==
    \E r \in Reqs :
        /\ IsEvent(r, UpdatedNames)
        /\ Executing(fwd[r])
        /\ Before(r) # Nil
        /\ Deref(Before(r)).Value = Deref(After(r)).Value
        /\ Deref(After(r)).Value = Ip2

\* C5: the forward script of an accepted Updated event without a prechange
\* snapshot holds no delete, only the add of the new value.
C5_NoDeleteWithoutBefore ==
    \A r \in Reqs :
        (IsEvent(r, UpdatedNames) /\ resp[r] = Accepted /\ Before(r) = Nil) =>
            OpKinds(fwd[r].script) = <<"add">>

\* C6: the forward script of an accepted Deleted event holds exactly one
\* delete, of the name, type and value of the prechange snapshot, and the key
\* of its lock is the prechange FQDN.
C6_DeletedUsesBefore ==
    \A r \in Reqs :
        (IsEvent(r, DeletedNames) /\ resp[r] = Accepted) =>
            /\ fwd[r].pc # "none"
            /\ fwd[r].fqdn = Deref(Before(r)).FQDN
            /\ Ops(fwd[r].script) =
                 << DeleteLine(Deref(Before(r)).FQDN, ToUpper(Deref(Before(r)).Type),
                               ScriptValue(Deref(Before(r)))) >>

\* the script of a Deleted event whose payload data differs from its
\* prechange snapshot in name, type and value is handed to ExecuteNSUpdate
C6_Witness ==
    \E r \in Reqs :
        /\ IsEvent(r, DeletedNames)
        /\ Executing(fwd[r])
        /\ Payload(r).Data.FQDN # Deref(Before(r)).FQDN
        /\ Payload(r).Data.Value # Deref(Before(r)).Value
        /\ ToUpper(Payload(r).Data.Type) # ToUpper(Deref(Before(r)).Type)

\* what C7 states of a Created event of type A or AAAA with PTR enabled
CreatedWithPTR(r) ==
    /\ IsEvent(r, CreatedNames)
    /\ Answered(r)
    /\ ToUpper(Payload(r).Data.Type) \in {TypeA, TypeAAAA}
    /\ ~Payload(r).Data.DisablePTR

OneForwardAdd(r) ==
    /\ Len(Ops(fwd[r].script)) = 1
    /\ Ops(fwd[r].script)[1].op = "add"
    /\ Ops(fwd[r].script)[1].name = Payload(r).Data.FQDN
    /\ Ops(fwd[r].script)[1].value = Payload(r).Data.Value

\* the PTR goroutine has not ended without a script, and its script is one add
OnePTRAdd(r) ==
    /\ ptr[r].pc # "none"
    /\ ptr[r].pc \in {"ExecuteNSUpdate", "defer", "done"} =>
          /\ Len(Ops(ptr[r].script)) = 1
          /\ Ops(ptr[r].script)[1].op = "add"
          /\ Ops(ptr[r].script)[1].type = PTR
          /\ Ops(ptr[r].script)[1].name = reverseDNSName(Payload(r).Data.Value)
          /\ Ops(ptr[r].script)[1].value = Payload(r).Data.FQDN

\* C7 as stated: every Created event of type A or AAAA with disablePTR false
\* produces one forward add and one PTR add on reverseDNSName(value).
C7_Original ==
    \A r \in Reqs : CreatedWithPTR(r) => (OneForwardAdd(r) /\ OnePTRAdd(r))

\* C7: a Created event of type A or AAAA with disablePTR false whose value
\* parses as an IP address produces exactly one forward add and exactly one
\* PTR add, named reverseDNSName(value) and pointing to the record's fqdn; if
\* the value is not an IP address the PTR goroutine ends without a script.
C7_CreatedAddsForwardAndPTR ==
    \A r \in Reqs :
        CreatedWithPTR(r) =>
            /\ OneForwardAdd(r)
            /\ isValidIP(Payload(r).Data.Value) => OnePTRAdd(r)
            /\ (~isValidIP(Payload(r).Data.Value) /\ ptr[r].pc # "start") =>
                  (ptr[r].pc = "done" /\ ptr[r].script = <<>> /\ ptr[r].defers = <<>>)

\* the PTR add of a Created A record on 10.0.0.1 is handed to ExecuteNSUpdate
C7_Witness ==
    \E r \in Reqs :
        /\ CreatedWithPTR(r)
        /\ Payload(r).Data.Value = Ip1
        /\ Executing(ptr[r])
        /\ Ops(ptr[r].script)[1].name =
             <<"1",".","0",".","0",".","1","0",".","i","n","-","a","d","d","r",
               ".","a","r","p","a",".">>
        /\ Ops(ptr[r].script)[1].value = FqdnA

\* C8: a Deleted event without a prechange snapshot, or whose prechange
\* snapshot has an empty fqdn, is rejected: it is never accepted, starts no
\* goroutine and takes no lock.
C8_DeletedEmptyBeforeRejected ==
    \A r \in Reqs :
        (/\ IsEvent(r, DeletedNames)
         /\ \/ Payload(r).Snapshots = Nil
            \/ Before(r) = Nil
            \/ Deref(Before(r)).FQDN = Empty)
            => (resp[r] # Accepted /\ NothingStarted(r))

\* C9: an Updated event without a postchange snapshot, or whose postchange
\* snapshot has an empty fqdn, is answered with a rejection, starts no
\* goroutine and takes no lock.
C9_UpdatedEmptyAfterRejected ==
    \A r \in Reqs :
        (/\ IsEvent(r, UpdatedNames)
         /\ \/ Payload(r).Snapshots = Nil
            \/ After(r) = Nil
            \/ Deref(After(r)).FQDN = Empty)
            => /\ NothingStarted(r)
               /\ Answered(r) => resp[r] = SnapshotsMissing

\* an Updated event whose postchange snapshot has an empty fqdn is answered
C9_Witness ==
    \E r \in Reqs :
        /\ IsEvent(r, UpdatedNames)
        /\ Payload(r).Snapshots # Nil
        /\ After(r) # Nil
        /\ Deref(After(r)).FQDN = Empty
        /\ Answered(r)

Unsupported == Respond(StatusBadRequest, "Unsupported event type")

\* C10: an event named created, updated or deleted in any case is handled by
\* the handler of that kind; an event of any other name is answered with
\* "Unsupported event type" and starts no goroutine.
C10_EventKindSelection ==
    \A r \in Reqs :
        (requests[r].Method = "POST" /\ requests[r].Body # Nil /\ Answered(r)) =>
            /\ IsEvent(r, CreatedNames) =>
                  (resp[r] = Accepted /\ OpKinds(fwd[r].script) = <<"add">>)
            /\ IsEvent(r, UpdatedNames) =>
                  \/ resp[r] = Accepted /\ OpKinds(fwd[r].script) = <<"delete", "add">>
                  \/ resp[r] = SnapshotsMissing /\ fwd[r] = NoFwd
            /\ IsEvent(r, DeletedNames) =>
                  \/ resp[r] = Accepted /\ OpKinds(fwd[r].script) = <<"delete">>
                  \/ resp[r] = SnapshotsMissing /\ fwd[r] = NoFwd
            /\ ~IsEvent(r, CreatedNames \cup UpdatedNames \cup DeletedNames) =>
                  (resp[r] = Unsupported /\ NothingStarted(r))

\* the script of an event named "UPDATED" is handed to ExecuteNSUpdate
C10_Witness ==
    \E r \in Reqs :
        /\ IsEvent(r, {EvUpdatedUpper})
        /\ Executing(fwd[r])
        /\ OpKinds(fwd[r].script) = <<"delete", "add">>

----------------------------------------------------------------------------
(* Properties of the acknowledgment and of failures *)

\* C11: every request is answered whatever the goroutines do, also when the
\* lock of its name is held for ever; the step that answers takes no lock and
\* calls no updater, an event with its snapshots is answered "accepted", and
\* the answer never changes afterwards, whether the update succeeds or fails.
C11_AcknowledgedWithoutWaiting ==
    /\ \A r \in Reqs : <>Answered(r)
    /\ [][\A r \in Reqs :
            /\ Answered(r) => resp'[r] = resp[r]
            /\ (~Answered(r) /\ Answered(r)') =>
                  /\ locks' = locks /\ mutexes' = mutexes
                  /\ fwd'[r].pc \in {"none", "AcquireLock"}
                  /\ ptr'[r].pc \in {"none", "start"}
                  /\ resp'[r] = Accepted <=> fwd'[r].pc = "AcquireLock"]_vars

\* a request is acknowledged while another goroutine holds the lock of its
\* name inside ExecuteNSUpdate
C11_Witness ==
    \E r1, r2 \in Reqs :
        /\ r1 # r2
        /\ Executing(fwd[r1])
        /\ resp[r2] = Accepted
        /\ fwd[r2].pc = "AcquireLock"
        /\ fwd[r2].fqdn = fwd[r1].fqdn
        /\ Locked(fwd[r2].fqdn)

\* C12: a goroutine whose ExecuteNSUpdate call has returned, with or without
\* an error, never calls ExecuteNSUpdate again, and a call is only made by a
\* goroutine that has made none.
C12_NoRetry ==
    [][\A r \in Reqs :
          /\ fwd[r].res # "none" =>
                (~Executing(fwd'[r]) /\ fwd'[r].res = fwd[r].res)
          /\ ptr[r].res # "none" =>
                (~Executing(ptr'[r]) /\ ptr'[r].res = ptr[r].res)
          /\ (~Executing(fwd[r]) /\ Executing(fwd'[r])) => fwd[r].res = "none"
          /\ (~Executing(ptr[r]) /\ Executing(ptr'[r])) => ptr[r].res = "none"]_vars

\* the forward and the PTR goroutine of an event have both ended after a
\* failed ExecuteNSUpdate
C12_Witness ==
    \E r \in Reqs :
        /\ fwd[r].pc = "done" /\ fwd[r].res = "err"
        /\ ptr[r].pc = "done" /\ ptr[r].res = "err"

\* goroutine holds key k: it has locked the mutex and not yet released it
FwdHolds(r, k) == k \in Held(fwd[r]) /\ fwd[r].pc = "ExecuteNSUpdate"

PtrHolds(r, k) ==
    /\ k \in Held(ptr[r])
    /\ ptr[r].pc \in {"AcquireNew", "LockNew", "ExecuteNSUpdate", "defer"}

\* C13: a goroutine that has ended, after a failed update as after a
\* successful one, holds no lock: every locked mutex is held by a goroutine
\* that has not ended, so a failure leaves no lock behind and a goroutine
\* waiting for a lock no goroutine holds can take it.
C13_FailureReleasesLocks ==
    /\ ~fatal
    /\ \A r \in Reqs :
          /\ fwd[r].pc = "done" => fwd[r].defers = <<>>
          /\ ptr[r].pc = "done" => ptr[r].defers = <<>>
    /\ \A k \in DOMAIN locks :
          mutexes[locks[k]] => \E r \in Reqs : FwdHolds(r, k) \/ PtrHolds(r, k)
    /\ \A r \in Reqs :
          /\ (fwd[r].pc = "Lock" /\ ~\E q \in Reqs : FwdHolds(q, fwd[r].fqdn)
                                                     \/ PtrHolds(q, fwd[r].fqdn))
                => ENABLED FwdLock(r)
          /\ (ptr[r].pc \in {"LockOld", "LockNew"}
              /\ ~\E q \in Reqs : FwdHolds(q, PtrKey(ptr[r]))
                                  \/ PtrHolds(q, PtrKey(ptr[r])))
                => ENABLED PtrLock(r)

\* after the failed update of one event, the forward goroutine of another
\* event on the same name is inside ExecuteNSUpdate and its PTR goroutine can
\* take the lock the failed PTR goroutine held
C13_Witness ==
    \E r1, r2 \in Reqs :
        /\ r1 # r2
        /\ fwd[r1].pc = "done" /\ fwd[r1].res = "err"
        /\ ptr[r1].pc = "done" /\ ptr[r1].res = "err"
        /\ fwd[r2].fqdn = fwd[r1].fqdn
        /\ Executing(fwd[r2])
        /\ ptr[r2].pc = "LockOld"
        /\ ptr[r2].oldPTRName \in PtrNamesUsed(ptr[r1])
        /\ ENABLED PtrLock(r2)

\* C14: the PTR goroutine of an event can take each of its steps whatever the
\* state of the forward goroutine of the same event: it starts, asks for its
\* locks, takes a free lock, and returns from ExecuteNSUpdate without waiting
\* for the forward goroutine.
C14_PTRIndependentOfForward ==
    \A r \in Reqs :
        /\ ptr[r].pc = "start" =>
              \E n \in {ptrNames(ptr[r].preData, ptr[r].postData)} :
                  ENABLED PtrStartWith(r, n)
        /\ ptr[r].pc \in {"AcquireOld", "AcquireNew"} => ENABLED PtrLoadOrStore(r)
        /\ (ptr[r].pc \in {"LockOld", "LockNew"} /\ CanLock(ptr[r].mutex))
              => ENABLED PtrLock(r)
        /\ Executing(ptr[r]) => ENABLED PtrExecuteReturn(r)
        /\ ptr[r].pc = "defer" => ENABLED PtrRelease(r)

\* the PTR goroutine of an event is inside ExecuteNSUpdate after the forward
\* update of the same event has failed
C14_Witness ==
    \E r \in Reqs :
        /\ fwd[r].pc = "done" /\ fwd[r].res = "err"
        /\ Executing(ptr[r])

\* the PTR goroutine of an event is inside ExecuteNSUpdate while the forward
\* goroutine of the same event waits for its lock
C14_WitnessBlocked ==
    \E r \in Reqs :
        /\ fwd[r].pc = "Lock" /\ ~CanLock(fwd[r].mutex)
        /\ Executing(ptr[r])

----------------------------------------------------------------------------
(* Properties of PTR synchronization *)

IsAddress(type) == ToUpper(type) \in {TypeA, TypeAAAA}

PtrStarted(r) == ptr[r].pc # "none"

\* the PTR goroutine has built its script
PtrBuilt(r) == ptr[r].pc \in {"ExecuteNSUpdate", "defer", "done"}

PtrOps(r) == Ops(ptr[r].script)

\* the disable_ptr flag of a snapshot, FALSE for an absent one
DisablePTROf(s) == IF s = Nil THEN FALSE ELSE Deref(s).DisablePTR

\* an Updated event turns PTR on: disabled before, enabled after
FlipsPTROn(r) ==
    /\ Before(r) # Nil
    /\ Deref(Before(r)).DisablePTR
    /\ ~Deref(After(r)).DisablePTR
    /\ IsAddress(Deref(After(r)).Type)

\* the script of the PTR goroutine of r ends with the add of the new PTR name
EndsWithPTRAdd(r) ==
    /\ PtrOps(r) # <<>>
    /\ PtrOps(r)[Len(PtrOps(r))] =
         AddLine(reverseDNSName(Deref(After(r)).Value), 300, PTR, Deref(After(r)).FQDN)

\* when the PTR goroutine of an accepted Updated event is started
UpdatedStartsPTRWhenDue(r) ==
    /\ PtrStarted(r) <=>
          /\ IsAddress(Deref(After(r)).Type)
          /\ \/ DisablePTROf(Before(r)) # Deref(After(r)).DisablePTR
             \/ ~Deref(After(r)).DisablePTR
    /\ PtrStarted(r) =>
          /\ ptr[r].event = "updated"
          /\ ptr[r].preData = snapshotToRecordData(Before(r))
          /\ ptr[r].postData = snapshotToRecordData(After(r))
    /\ (DisablePTROf(Before(r)) /\ Deref(After(r)).DisablePTR) => ~PtrStarted(r)

\* C15 as stated: the PTR goroutine of an accepted Updated event is started
\* exactly when the type is A or AAAA and the flags differ or PTR is enabled
\* after, and every update that turns PTR on produces a PTR add.
C15_Original ==
    \A r \in Reqs :
        (IsEvent(r, UpdatedNames) /\ resp[r] = Accepted) =>
            /\ UpdatedStartsPTRWhenDue(r)
            /\ (FlipsPTROn(r) /\ PtrBuilt(r)) => EndsWithPTRAdd(r)

\* C15: the PTR goroutine of an accepted Updated event is started exactly
\* when the after type is A or AAAA and the disable_ptr flags differ or PTR
\* is enabled after (an absent before counts as enabled); an update with PTR
\* disabled on both sides starts none; an update that turns PTR on produces a
\* PTR add when the after value parses as an IP address.
C15_UpdatedPTRCondition ==
    \A r \in Reqs :
        (IsEvent(r, UpdatedNames) /\ resp[r] = Accepted) =>
            /\ UpdatedStartsPTRWhenDue(r)
            /\ (FlipsPTROn(r) /\ isValidIP(Deref(After(r)).Value) /\ PtrBuilt(r))
                  => EndsWithPTRAdd(r)

\* the PTR add of an update that turns PTR on is handed to ExecuteNSUpdate
C15_Witness ==
    \E r \in Reqs :
        /\ IsEvent(r, UpdatedNames)
        /\ resp[r] = Accepted
        /\ FlipsPTROn(r)
        /\ Executing(ptr[r])
        /\ EndsWithPTRAdd(r)

\* C16: a Created event starts a PTR goroutine exactly when its type is A or
\* AAAA and data.disable_ptr is false, with no before and the payload data as
\* after; an accepted Deleted event exactly when the prechange type is A or
\* AAAA and its disable_ptr is false, with the prechange snapshot as before
\* and no after.  No other record type starts one.
C16_CreatedDeletedPTRCondition ==
    \A r \in Reqs :
        /\ (IsEvent(r, CreatedNames) /\ Answered(r)) =>
              /\ PtrStarted(r) <=>
                    (IsAddress(Payload(r).Data.Type) /\ ~Payload(r).Data.DisablePTR)
              /\ PtrStarted(r) =>
                    /\ ptr[r].event = "created"
                    /\ ptr[r].preData = Nil
                    /\ ptr[r].postData = Ref(Payload(r).Data)
        /\ (IsEvent(r, DeletedNames) /\ resp[r] = Accepted) =>
              /\ PtrStarted(r) <=>
                    (IsAddress(Deref(Before(r)).Type) /\ ~Deref(Before(r)).DisablePTR)
              /\ PtrStarted(r) =>
                    /\ ptr[r].event = "deleted"
                    /\ ptr[r].preData = snapshotToRecordData(Before(r))
                    /\ ptr[r].postData = Nil
        /\ (Answered(r) /\ fwd[r].pc # "none"
            /\ \A i \in 1..Len(Ops(fwd[r].script)) :
                  Ops(fwd[r].script)[i].type \notin {TypeA, TypeAAAA})
              => ~PtrStarted(r)

\* a Created CNAME record with PTR enabled is answered and has no PTR goroutine
C16_Witness ==
    \E r \in Reqs :
        /\ IsEvent(r, CreatedNames)
        /\ ToUpper(Payload(r).Data.Type) = TypeCNAME
        /\ ~Payload(r).Data.DisablePTR
        /\ Executing(fwd[r])
        /\ ~PtrStarted(r)

\* the values the PTR goroutine of r reads as oldIP and newIP
OldIP(r) == IF ptr[r].preData = Nil THEN Empty ELSE Deref(ptr[r].preData).Value

NewIP(r) == IF ptr[r].postData = Nil THEN Empty ELSE Deref(ptr[r].postData).Value

\* the PTR goroutine has not ended before its ExecuteNSUpdate call
PtrCalls(r) == ptr[r].pc \in {"defer", "done"} => ptr[r].res # "none"

\* every lock this run has ever asked for is the forward lock or one of names
OnlyLocks(r, names) ==
    /\ Held(ptr[r]) \subseteq names
    /\ DOMAIN locks \subseteq ({fwd[r].fqdn} \cup names)

\* C17: when both values of a PTR synchronization are valid IPs, the one
\* script handed to ExecuteNSUpdate holds the delete of oldPTRName with
\* before.fqdn followed by the add of newPTRName with after.fqdn, also when
\* the two names are equal.
C17_PTRDeleteThenAdd ==
    \A r \in Reqs :
        (PtrStarted(r) /\ isValidIP(OldIP(r)) /\ isValidIP(NewIP(r))) =>
            /\ PtrCalls(r)
            /\ PtrBuilt(r) =>
                  PtrOps(r) =
                    << DeleteLine(reverseDNSName(OldIP(r)), PTR, Deref(ptr[r].preData).FQDN),
                       AddLine(reverseDNSName(NewIP(r)), 300, PTR,
                               Deref(ptr[r].postData).FQDN) >>

\* the PTR script of an update that keeps the IP address is handed to
\* ExecuteNSUpdate
C17_Witness ==
    \E r \in Reqs :
        /\ Executing(ptr[r])
        /\ isValidIP(OldIP(r))
        /\ OldIP(r) = NewIP(r)
        /\ ptr[r].oldPTRName = ptr[r].newPTRName
        /\ OpKinds(ptr[r].script) = <<"delete", "add">>

\* C18: when exactly one value of the PTR synchronization of an Updated
\* event parses as an IP, the script holds only the operation of that side,
\* only the lock of that side's name is ever asked for, and the goroutine
\* calls ExecuteNSUpdate.
C18_OneValidSide ==
    \A r \in Reqs :
        (PtrStarted(r) /\ ptr[r].event = "updated"
         /\ isValidIP(OldIP(r)) # isValidIP(NewIP(r))) =>
            /\ PtrCalls(r)
            /\ isValidIP(OldIP(r)) =>
                  /\ ptr[r].pc \notin {"AcquireNew", "LockNew"}
                  /\ OnlyLocks(r, {reverseDNSName(OldIP(r))})
                  /\ PtrBuilt(r) =>
                        PtrOps(r) = << DeleteLine(reverseDNSName(OldIP(r)), PTR,
                                                  Deref(ptr[r].preData).FQDN) >>
            /\ isValidIP(NewIP(r)) =>
                  /\ ptr[r].pc \notin {"AcquireOld", "LockOld"}
                  /\ OnlyLocks(r, {reverseDNSName(NewIP(r))})
                  /\ PtrBuilt(r) =>
                        PtrOps(r) = << AddLine(reverseDNSName(NewIP(r)), 300, PTR,
                                               Deref(ptr[r].postData).FQDN) >>

\* the PTR goroutine of an update from an address to a value that is no IP
\* has ended after a successful ExecuteNSUpdate of the delete alone
C18_Witness ==
    \E r \in Reqs :
        /\ ptr[r].event = "updated"
        /\ isValidIP(OldIP(r))
        /\ NewIP(r) = NotAnIP
        /\ ptr[r].pc = "done"
        /\ ptr[r].res = "ok"
        /\ OpKinds(ptr[r].script) = <<"delete">>

\* C19: when neither value parses as an IP, an absent side included, the PTR
\* goroutine ends without a lock, a script or an ExecuteNSUpdate call,
\* whatever the event.
C19_NoValidSideIsNoOp ==
    \A r \in Reqs :
        (PtrStarted(r) /\ ~isValidIP(OldIP(r)) /\ ~isValidIP(NewIP(r))) =>
            /\ ptr[r].pc \in {"start", "done"}
            /\ ptr[r].res = "none"
            /\ ptr[r].script = <<>>
            /\ ptr[r].mutex = NoMutex
            /\ OnlyLocks(r, {})

\* the PTR goroutine of an update without a before snapshot to a value that
\* is no IP has ended
C19_Witness ==
    \E r \in Reqs :
        /\ ptr[r].event = "updated"
        /\ ptr[r].preData = Nil
        /\ NewIP(r) = NotAnIP
        /\ ptr[r].pc = "done"

\* a goroutine that has not ended
FwdPending(r) == fwd[r].pc \notin {"none", "done"}

PtrPending(r) == ptr[r].pc \notin {"none", "done"}

\* a goroutine that waits in mutex.Lock for a mutex that is locked
FwdBlocked(r) == fwd[r].pc = "Lock" /\ ~CanLock(fwd[r].mutex)

PtrBlocked(r) == ptr[r].pc \in {"LockOld", "LockNew"} /\ ~CanLock(ptr[r].mutex)

\* every request is answered and every goroutine that has not ended waits
\* for a locked mutex: no goroutine can ever take a step again
AllBlocked ==
    /\ \A r \in Reqs : Answered(r)
    /\ \A r \in Reqs : FwdPending(r) => FwdBlocked(r)
    /\ \A r \in Reqs : PtrPending(r) => PtrBlocked(r)

\* C20: every goroutine started for an accepted event ends with its locks
\* released: the goroutines that have not ended are never all waiting for
\* locks, which only one of them could release.
C20_TasksTerminate ==
    (\E r \in Reqs : FwdPending(r) \/ PtrPending(r)) => ~AllBlocked

----------------------------------------------------------------------------
(* Properties of a hanging updater *)

\* every goroutine but the forward goroutine of h has ended or waits for a
\* locked mutex of a name other than n, and one of them waits
OthersBlockedOffName(h, n) ==
    /\ \A r \in Reqs : Answered(r)
    /\ \A r \in Reqs \ {h} : FwdPending(r) => (FwdBlocked(r) /\ fwd[r].fqdn # n)
    /\ \A r \in Reqs : PtrPending(r) => (PtrBlocked(r) /\ PtrKey(ptr[r]) # n)
    /\ \E r \in Reqs : PtrPending(r) \/ (r # h /\ FwdPending(r))

\* C21: while a forward goroutine is inside an ExecuteNSUpdate call that does
\* not return, holding the lock of its name, the goroutines that wait for
\* locks of other names are not stalled: they are never all waiting for locks
\* of other names with no goroutine left to release one.
C21_HangStallsOnlyItsName ==
    \A h \in Reqs :
        Executing(fwd[h]) => ~OthersBlockedOffName(h, fwd[h].fqdn)

-----------------------------------------------------------------------------
(* Properties of the TTL and of CNAME values                               *)

\* C22: the add of the forward script of an accepted Created event carries
\* data.ttl, and that of an accepted Updated event after.ttl, when the TTL
\* is present and above zero, and 300 otherwise; a delete carries no TTL.
C22_EffectiveTTL ==
    \A r \in Reqs :
        (resp[r] = Accepted /\ fwd[r].pc # "none") =>
            \A i \in 1..Len(Ops(fwd[r].script)) :
                LET line == Ops(fwd[r].script)[i]
                IN  /\ line.op = "delete" => "ttl" \notin DOMAIN line
                    /\ (line.op = "add" /\ IsEvent(r, CreatedNames)) =>
                           line.ttl = EffectiveTTL(Payload(r).Data)
                    /\ (line.op = "add" /\ IsEvent(r, UpdatedNames)) =>
                           line.ttl = EffectiveTTL(Deref(After(r)))

\* an Updated event whose postchange TTL is zero has its delete and its add,
\* the add with TTL 300, handed to ExecuteNSUpdate
C22_Witness ==
    \E r \in Reqs :
        /\ Executing(fwd[r])
        /\ IsEvent(r, UpdatedNames)
        /\ Deref(After(r)).TTL = Ref(0)
        /\ OpKinds(fwd[r].script) = <<"delete", "add">>
        /\ Ops(fwd[r].script)[2].ttl = 300

\* the rule of the CNAME values as stated: no trimming of the value or of
\* the owner name, and the zone appended whatever it is
EndsWithDot(s) == s # Empty /\ s[Len(s)] = Dot

SansDot(s) == IF EndsWithDot(s) THEN SubSeq(s, 1, Len(s) - 1) ELSE s

StatedZone(fqdn, ownerName) ==
    LET f == SansDot(fqdn)
        p == ownerName \o <<Dot>>
    IN  IF Len(f) >= Len(p) /\ SubSeq(f, 1, Len(p)) = p
        THEN SubSeq(f, Len(p) + 1, Len(f)) ELSE f

StatedCNAME(value, fqdn, ownerName) ==
    IF EndsWithDot(value) THEN value
    ELSE value \o <<Dot>> \o StatedZone(fqdn, ownerName) \o <<Dot>>

\* the rule with the value trimmed of surrounding white space, the owner
\* name of one trailing dot, and a value left alone when the zone is empty
QualifiedCNAME(value, fqdn, ownerName) ==
    LET v    == TrimSpace(value)
        o    == SansDot(ownerName)
        zone == IF o = Empty THEN SansDot(fqdn) ELSE StatedZone(fqdn, o)
    IN  IF EndsWithDot(v) THEN v
        ELSE IF zone = Empty THEN v
        ELSE v \o <<Dot>> \o zone \o <<Dot>>

\* the values of the operations of a forward script, in order
OpValues(script) == [i \in 1..Len(Ops(script)) |-> Ops(script)[i].value]

IsCNAME(s) == ToUpper(s.Type) = TypeCNAME

\* the values the forward script of an accepted CNAME event carries under
\* the rule q: Created and Deleted qualify the one value; Updated qualifies
\* the new value with the after snapshot and the old value, when there is
\* one, with the before snapshot
CNAMEValuesUnder(r, q(_, _, _)) ==
    IF IsEvent(r, CreatedNames)
    THEN << q(Payload(r).Data.Value, Payload(r).Data.FQDN, Payload(r).Data.Name) >>
    ELSE IF IsEvent(r, DeletedNames)
    THEN << q(Deref(Before(r)).Value, Deref(Before(r)).FQDN, Deref(Before(r)).Name) >>
    ELSE << IF Before(r) = Nil \/ Deref(Before(r)).Value = Empty THEN Empty
            ELSE q(Deref(Before(r)).Value, Deref(Before(r)).FQDN, Deref(Before(r)).Name),
            q(Deref(After(r)).Value, Deref(After(r)).FQDN, Deref(After(r)).Name) >>

\* the record whose type decides that the event is a CNAME event
CNAMEEvent(r) ==
    /\ resp[r] = Accepted
    /\ fwd[r].pc # "none"
    /\ \/ IsEvent(r, CreatedNames) /\ IsCNAME(Payload(r).Data)
       \/ IsEvent(r, DeletedNames) /\ IsCNAME(Deref(Before(r)))
       \/ IsEvent(r, UpdatedNames) /\ IsCNAME(Deref(After(r)))

\* C23 as stated: a value ending in a dot is unchanged, any other value gets
\* ".zone." appended, the zone being the FQDN without its trailing dot and
\* without the leading "ownerName." when it is there.
C23_Original ==
    \A r \in Reqs :
        CNAMEEvent(r) => OpValues(fwd[r].script) = CNAMEValuesUnder(r, StatedCNAME)

\* C23: the value is first trimmed of surrounding white space and the owner
\* name of a trailing dot; a trimmed value ending in a dot is the result;
\* otherwise the result is value.zone. with the zone the FQDN without its
\* trailing dot and without the leading "ownerName." (the whole FQDN when
\* the owner name is empty or not a prefix), and the trimmed value itself
\* when that zone is empty. An Updated event applies the rule to the new
\* value with the after snapshot and, when the old value is not empty, to
\* the old value with the before snapshot.
C23_CNAMEQualification ==
    \A r \in Reqs :
        CNAMEEvent(r) => OpValues(fwd[r].script) = CNAMEValuesUnder(r, QualifiedCNAME)

\* an Updated event whose old value "h" under c.z. with owner c becomes
\* h.z. and whose new value "h" under c.z. with owner q, not a prefix,
\* becomes h.c.z. is handed to ExecuteNSUpdate
C23_Witness ==
    \E r \in Reqs :
        /\ Executing(fwd[r])
        /\ IsEvent(r, UpdatedNames)
        /\ CNAMEEvent(r)
        /\ Before(r) # Nil
        /\ Deref(Before(r)).Name = <<"c">>
        /\ Deref(After(r)).Name = <<"q">>
        /\ OpValues(fwd[r].script) = << <<"h",".","z",".">>, <<"h",".","c",".","z",".">> >>

\* C24: every value of an add or a delete of an accepted CNAME event that is
\* handed to ExecuteNSUpdate is absolute: it ends with a dot.
C24_CNAMEValuesAbsolute ==
    \A r \in Reqs :
        (CNAMEEvent(r) /\ Executing(fwd[r])) =>
            \A i \in 1..Len(Ops(fwd[r].script)) :
                EndsWithDot(OpValues(fwd[r].script)[i])

-----------------------------------------------------------------------------
(* Properties of reverseDNSName                                            *)

Returned == call.pc = "returned"

\* the decimal numbers 0 to 255 as they are written, without leading zeros
DecimalOctets == { Itoa(n) : n \in 0..255 }

HasColon(s) == \E k \in 1..Len(s) : s[k] = ":"

\* a.b.c.d with four decimal octets
IsDottedQuad(s) ==
    /\ ~HasColon(s)
    /\ Len(Split(s, Dot)) = 4
    /\ \A i \in 1..4 : Split(s, Dot)[i] \in DecimalOctets

\* strings that are no IP address: without a colon, anything but a dotted
\* quad; with a colon, a letter that is no hex digit, a group of five
\* digits, "::" twice, too few groups, or a bad dotted tail
NotAnAddress(s) ==
    \/ ~HasColon(s) /\ ~IsDottedQuad(s)
    \/ /\ HasColon(s)
       /\ \/ \E k \in 1..Len(s) : s[k] = "g"
          \/ \E k \in 1..(Len(s) - 4) : SubSeq(s, k, k + 4) = <<"1","2","3","4","5">>
          \/ \E k \in 1..(Len(s) - 2) : SubSeq(s, k, k + 2) = <<"2","5","6">>
          \/ s \in { <<"1",":",":","2",":",":","3">>, <<"1",":","2">> }

\* C25: for a dotted quad a.b.c.d, reverseDNSName returns
\* d.c.b.a.in-addr.arpa.; for a string that is no IP address it returns the
\* empty string.
C25_ReverseIPv4 ==
    Returned =>
        /\ IsDottedQuad(call.ip) =>
               call.name = Split(call.ip, Dot)[4] \o DOT \o Split(call.ip, Dot)[3] \o DOT
                           \o Split(call.ip, Dot)[2] \o DOT \o Split(call.ip, Dot)[1]
                           \o <<".","i","n","-","a","d","d","r",".","a","r","p","a",".">>
        /\ NotAnAddress(call.ip) => call.name = Empty

\* the call on 10.0.1.255 has returned 255.1.0.10.in-addr.arpa.
C25_Witness ==
    /\ Returned
    /\ call.ip = <<"1","0",".","0",".","1",".","2","5","5">>
    /\ call.name = <<"2","5","5",".","1",".","0",".","1","0">>
                   \o <<".","i","n","-","a","d","d","r",".","a","r","p","a",".">>

\* a call on a string that is no IP address has returned
C25_WitnessNotAnAddress ==
    /\ Returned
    /\ call.ip = <<"1","0",".","2","5","6",".","0",".","1">>
    /\ call.name = Empty

\* the 16 bytes of an address written as eight groups of hex digits
GroupBytes(groups) ==
    [i \in 1..16 |->
        IF i % 2 = 1 THEN HexAcc(groups[(i + 1) \div 2]) \div 256
        ELSE HexAcc(groups[i \div 2]) % 256]

\* the 32 labels of the bytes b: b[16] down to b[1], of each the low nibble
\* and then the high nibble, one hex digit each
NibbleLabels(b) ==
    [k \in 1..32 |->
        LET byte == b[16 - ((k - 1) \div 2)]
        IN  IF k % 2 = 1 THEN <<HexChars[(byte % 16) + 1]>>
            ELSE <<HexChars[(byte \div 16) + 1]>>]

\* an IPv6 address written in full: eight groups of one to four hex digits
IsFullIPv6(s) ==
    /\ Len(Split(s, ":")) = 8
    /\ \A i \in 1..8 :
           /\ Len(Split(s, ":")[i]) \in 1..4
           /\ \A k \in 1..Len(Split(s, ":")[i]) : IsHex(Split(s, ":")[i][k])

\* C26: for a valid IPv6 address reverseDNSName returns 32 labels of one hex
\* digit each, the nibbles of the bytes b[15] down to b[0], low nibble then
\* high nibble, followed by ip6.arpa.
C26_ReverseIPv6 ==
    (Returned /\ IsFullIPv6(call.ip)) =>
        call.name = Join(NibbleLabels(GroupBytes(Split(call.ip, ":"))), DOT)
                    \o <<".","i","p","6",".","a","r","p","a",".">>

-----------------------------------------------------------------------------
(* Properties of the validation                                            *)

\* the record of the payload lacks its FQDN, its type or its value
Incomplete(r) ==
    /\ requests[r].Method = "POST"
    /\ requests[r].Body # Nil
    /\ \/ Payload(r).Data.FQDN = Empty
       \/ Payload(r).Data.Type = Empty
       \/ Payload(r).Data.Value = Empty

\* C27: a request whose payload is incomplete is never accepted: it is
\* answered with a rejection, no script is built and no goroutine started.
C27_IncompleteRejected ==
    \A r \in Reqs :
        Incomplete(r) =>
            /\ resp[r] # Accepted
            /\ Answered(r) => resp[r].status = StatusBadRequest
            /\ fwd[r] = NoFwd
            /\ ptr[r] = NoPtr

-----------------------------------------------------------------------------
(* Properties of the PTR goroutine of a Deleted event                      *)

\* C28: the PTR goroutine of an accepted Deleted event whose prechange
\* snapshot is an A or AAAA record with PTR enabled and a valid IP hands to
\* ExecuteNSUpdate exactly one operation, the delete of
\* reverseDNSName(before.value) with before.fqdn, and no add.
C28_DeletedPTRPlan ==
    \A r \in Reqs :
        (/\ IsEvent(r, DeletedNames)
         /\ resp[r] = Accepted
         /\ IsAddress(Deref(Before(r)).Type)
         /\ ~Deref(Before(r)).DisablePTR
         /\ isValidIP(Deref(Before(r)).Value)) =>
            /\ PtrStarted(r)
            /\ PtrCalls(r)
            /\ PtrBuilt(r) =>
                  PtrOps(r) = << DeleteLine(reverseDNSName(Deref(Before(r)).Value), PTR,
                                            Deref(Before(r)).FQDN) >>

\* the PTR script of a Deleted event of an AAAA record, one delete under
\* ip6.arpa., is handed to ExecuteNSUpdate
C28_Witness ==
    \E r \in Reqs :
        /\ IsEvent(r, DeletedNames)
        /\ Executing(ptr[r])
        /\ Deref(Before(r)).Value = Ip6
        /\ OpKinds(ptr[r].script) = <<"delete">>
        /\ HasSuffix(PtrOps(r)[1].name, Ip6Arpa)
        /\ PtrOps(r)[1].value = FqdnA

-----------------------------------------------------------------------------
(* Properties of the locks of the PTR goroutine                            *)

\* the locks a PTR goroutine takes, in the order it takes them
Acquired(t) ==
    (IF t.oldPTRName # Empty THEN <<t.oldPTRName>> ELSE <<>>)
    \o (IF t.newPTRName # Empty /\ t.newPTRName # t.oldPTRName
        THEN <<t.newPTRName>> ELSE <<>>)

\* the mutex registered under key k is locked
MutexLocked(k) == k \in DOMAIN locks /\ mutexes[locks[k]]

\* C29: a PTR goroutine asks for the lock of oldPTRName first, holding
\* nothing; it asks for the lock of newPTRName only when that name is not
\* empty and differs from oldPTRName, so never for a lock it holds; during
\* its ExecuteNSUpdate call it holds every lock it took; it releases the
\* lock of newPTRName before that of oldPTRName.
C29_PTRLockOrder ==
    \A r \in Reqs :
        LET t == ptr[r]
        IN  /\ t.pc \in {"AcquireOld", "LockOld"} =>
                  /\ t.oldPTRName # Empty
                  /\ t.defers = <<>>
            /\ t.pc \in {"AcquireNew", "LockNew"} =>
                  /\ t.newPTRName # Empty
                  /\ t.newPTRName # t.oldPTRName
                  /\ t.newPTRName \notin Held(t)
                  /\ t.defers = (IF t.oldPTRName # Empty THEN <<t.oldPTRName>> ELSE <<>>)
            /\ Executing(t) =>
                  /\ t.defers = Acquired(t)
                  /\ \A k \in Held(t) : MutexLocked(k)
            /\ t.pc = "defer" =>
                  /\ Len(Acquired(t)) = 2
                  /\ t.defers = <<t.oldPTRName>>
                  /\ MutexLocked(t.oldPTRName)
                  /\ ~MutexLocked(t.newPTRName)
            /\ t.pc = "done" => t.defers = <<>>

\* a PTR goroutine that took the locks of two different names has called
\* ExecuteNSUpdate and released the lock of newPTRName, and still holds that
\* of oldPTRName
C29_Witness ==
    \E r \in Reqs :
        /\ ptr[r].pc = "defer"
        /\ ptr[r].res # "none"
        /\ ptr[r].oldPTRName # ptr[r].newPTRName
        /\ ptr[r].defers = <<ptr[r].oldPTRName>>
        /\ ~MutexLocked(ptr[r].newPTRName)

\* a PTR goroutine whose two names are equal calls ExecuteNSUpdate holding
\* the one lock
C29_WitnessEqualNames ==
    \E r \in Reqs :
        /\ Executing(ptr[r])
        /\ ptr[r].oldPTRName # Empty
        /\ ptr[r].oldPTRName = ptr[r].newPTRName
        /\ ptr[r].defers = <<ptr[r].oldPTRName>>

-----------------------------------------------------------------------------
(* Properties of the first use of a name in the registry                   *)

\* the goroutines that hold the lock of key k
Holders(k) ==
    { <<"fwd", r>> : r \in { q \in Reqs : k \in Held(fwd[q]) } }
    \cup { <<"ptr", r>> : r \in { q \in Reqs : k \in Held(ptr[q]) } }

\* the mutexes that were ever allocated and handed out for key k
MutexesOf(k) == { m \in DOMAIN mutexes : m[1] = k }

\* C30: whatever the interleaving of the AcquireLock calls on a name that
\* had no entry, the registry holds one entry for the name and one mutex was
\* ever handed out for it; every goroutine waiting in Lock for the name waits
\* on that mutex; at most one goroutine holds the lock of the name.
C30_FirstUseCreatesOneMutex ==
    /\ \A k \in DOMAIN locks : MutexesOf(k) = {locks[k]}
    /\ \A m \in DOMAIN mutexes : m[1] \in DOMAIN locks
    /\ \A r \in Reqs :
          /\ fwd[r].pc = "Lock" => fwd[r].mutex = locks[fwd[r].fqdn]
          /\ ptr[r].pc \in {"LockOld", "LockNew"} => ptr[r].mutex = locks[PtrKey(ptr[r])]
    /\ \A k \in DOMAIN locks :
          /\ Cardinality(Holders(k)) <= 1
          /\ Holders(k) # {} => mutexes[locks[k]]

\* two forward goroutines have both gone through LoadOrStore for the same
\* name before either took the lock: both wait on the one mutex of the name
C30_Witness ==
    \E r1, r2 \in Reqs :
        /\ r1 # r2
        /\ fwd[r1].pc = "Lock"
        /\ fwd[r2].pc = "Lock"
        /\ fwd[r1].fqdn = fwd[r2].fqdn
        /\ fwd[r1].mutex = fwd[r2].mutex
        /\ ~mutexes[fwd[r1].mutex]

-----------------------------------------------------------------------------
(* Properties of the registry over a run                                   *)

\* the names whose AcquireLock has gone through LoadOrStore
EverAcquired ==
    { fwd[r].fqdn : r \in { q \in Reqs : fwd[q].pc \notin {"none", "AcquireLock"} } }
    \cup { ptr[r].oldPTRName :
             r \in { q \in Reqs : /\ ptr[q].oldPTRName # Empty
                                  /\ ptr[q].pc \notin {"none", "start", "AcquireOld"} } }
    \cup { ptr[r].newPTRName :
             r \in { q \in Reqs : /\ ptr[q].newPTRName # Empty
                                  /\ ptr[q].newPTRName # ptr[q].oldPTRName
                                  /\ ptr[q].pc \in {"LockNew", "ExecuteNSUpdate",
                                                    "defer", "done"} } }

\* no step removes an entry of the registry or puts another mutex under a
\* name that has one
RegistryKept ==
    /\ DOMAIN locks \subseteq DOMAIN locks'
    /\ \A k \in DOMAIN locks : locks'[k] = locks[k]

\* C31: the registry only grows: no step of AcquireLock or ReleaseLock
\* removes or replaces an entry, and at every moment the registered names are
\* exactly the names ever acquired.
C31_RegistryOnlyGrows ==
    /\ [](DOMAIN locks = EverAcquired)
    /\ [][RegistryKept]_vars

\* a forward goroutine has released the lock of a name and ended, and the
\* forward goroutine of another event holds the lock of that name on the same
\* mutex
C31_Witness ==
    \E r1, r2 \in Reqs :
        /\ r1 # r2
        /\ fwd[r1].pc = "done"
        /\ fwd[r1].res # "none"
        /\ Executing(fwd[r2])
        /\ fwd[r1].fqdn = fwd[r2].fqdn
        /\ fwd[r1].mutex = locks[fwd[r1].fqdn]
        /\ fwd[r2].mutex = locks[fwd[r1].fqdn]

-----------------------------------------------------------------------------
(* Properties of the order of the updater calls                            *)

\* the forward goroutine of r has not yet taken the lock of its name
BeforeLock(r) == fwd[r].pc \in {"AcquireLock", "Lock"}

\* C32: of two accepted events on one name, the first answered before the
\* handler of the second started, the forward goroutines never are inside
\* ExecuteNSUpdate together, and nothing else orders them: whenever the
\* goroutine of the later event waits for the free mutex of the name it can
\* take it, whether or not the goroutine of the earlier event has taken it
\* before.
C32_ExclusionWithoutOrder ==
    \A r \in Reqs \ {1} :
        fwd[1].fqdn = fwd[r].fqdn =>
            /\ ~(Executing(fwd[1]) /\ Executing(fwd[r]))
            /\ (BeforeLock(1) /\ fwd[r].pc = "Lock" /\ CanLock(fwd[r].mutex))
                  => ENABLED FwdLock(r)

\* the updater call of the event that arrived second is in progress while
\* the goroutine of the event that arrived first still waits for the lock
C32_Witness ==
    \E r \in Reqs \ {1} :
        /\ resp[1] = Accepted
        /\ resp[r] = Accepted
        /\ fwd[1].fqdn = fwd[r].fqdn
        /\ Executing(fwd[r])
        /\ fwd[1].pc = "Lock"
        /\ fwd[1].res = "none"

\* the updater call of the event that arrived first has returned before
\* the goroutine of the event that arrived second has the lock
C32_WitnessArrivalOrder ==
    \E r \in Reqs \ {1} :
        /\ resp[r] = Accepted
        /\ fwd[1].fqdn = fwd[r].fqdn
        /\ fwd[1].pc = "done"
        /\ fwd[r].pc = "Lock"

C33_WitnessForwardFirst ==
    \E r \in Reqs :
        /\ fwd[r].pc = "done"
        /\ ptr[r].pc \in {"start", "AcquireOld", "LockOld", "AcquireNew", "LockNew"}

\* the PTR goroutine has ended after its ExecuteNSUpdate call and the forward
\* goroutine of the same event has not yet called ExecuteNSUpdate
C33_WitnessPTRFirst ==
    \E r \in Reqs :
        /\ ptr[r].pc = "done"
        /\ ptr[r].res # "none"
        /\ BeforeLock(r)

-----------------------------------------------------------------------------
(* Properties of the scripts handed to the updater                         *)

\* a server line, then one or more operations, then the one send
WellFormedScript(script) ==
    /\ Len(script) >= 3
    /\ script[1].op = "server"
    /\ script[Len(script)].op = "send"
    /\ \A i \in 2..(Len(script) - 1) : IsOp(script[i])

\* C34: every script handed to ExecuteNSUpdate, by a forward goroutine or by
\* a PTR goroutine, is a server line, then one or more add or delete
\* operations, then exactly one send, its last line.
C34_ScriptShape ==
    \A r \in Reqs :
        /\ Executing(fwd[r]) => WellFormedScript(fwd[r].script)
        /\ Executing(ptr[r]) => WellFormedScript(ptr[r].script)

\* the forward script and the PTR script that the handlers compute from a
\* request alone
ForwardScriptOf(q) == Deref(webhookHandler(q).fwd).script

PTRScriptOf(q) ==
    LET h == Deref(webhookHandler(q).ptr)
        n == ptrNames(h.preData, h.postData)
    IN  Deref(ptrScript(h.event, h.preData, h.postData, n.oldPTRName, n.newPTRName))

\* the PTR goroutine of r has handed a script to ExecuteNSUpdate
PtrHanded(r) == ptr[r].res # "none" \/ Executing(ptr[r])

\* C35: the scripts of a goroutine depend on its own event only: whatever
\* else runs and however the goroutines interleave, the forward script and
\* the PTR script are those computed from the request alone, so two requests
\* with the same event have the same scripts.
C35_ScriptsDependOnEventOnly ==
    /\ \A r \in Reqs :
          /\ fwd[r].pc # "none" => fwd[r].script = ForwardScriptOf(requests[r])
          /\ PtrHanded(r) => ptr[r].script = PTRScriptOf(requests[r])
    /\ \A r1, r2 \in Reqs :
          requests[r1] = requests[r2] =>
              /\ (fwd[r1].pc # "none" /\ fwd[r2].pc # "none")
                    => fwd[r1].script = fwd[r2].script
              /\ (PtrHanded(r1) /\ PtrHanded(r2)) => ptr[r1].script = ptr[r2].script

\* two requests with the same Updated event: the PTR goroutine of one made
\* its updater call and ended, that of the other makes its call later,
\* while a forward goroutine is inside ExecuteNSUpdate
C35_Witness ==
    \E r1, r2 \in Reqs :
        /\ r1 # r2
        /\ requests[r1] = requests[r2]
        /\ IsEvent(r1, UpdatedNames)
        /\ ptr[r1].pc = "done" /\ ptr[r1].res # "none"
        /\ Executing(ptr[r2])
        /\ \E r \in Reqs : Executing(fwd[r])
        /\ Len(PtrOps(r2)) = 2

-----------------------------------------------------------------------------
(* Properties of the locks held during the updater call                    *)

\* the FQDN the claim names for the forward operations of an accepted event
EventFQDN(r) ==
    IF IsEvent(r, CreatedNames) THEN Payload(r).Data.FQDN
    ELSE IF IsEvent(r, DeletedNames) THEN Deref(Before(r)).FQDN
    ELSE Deref(After(r)).FQDN

\* C36: a goroutine inside ExecuteNSUpdate holds the lock of the owner name
\* of every operation of its script: the forward goroutine that of the one
\* FQDN of its operations (data.fqdn, before.fqdn or after.fqdn by event
\* kind), the PTR goroutine those of oldPTRName for its delete and of
\* newPTRName for its add.
C36_LockCoverage ==
    \A r \in Reqs :
        /\ Executing(fwd[r]) =>
              /\ OpNames(fwd[r].script) = {EventFQDN(r)}
              /\ OpNames(fwd[r].script) \subseteq Held(fwd[r])
              /\ \A k \in OpNames(fwd[r].script) : MutexLocked(k)
        /\ Executing(ptr[r]) =>
              /\ OpNames(ptr[r].script) \subseteq Held(ptr[r])
              /\ \A k \in OpNames(ptr[r].script) : MutexLocked(k)
              /\ \A i \in 1..Len(PtrOps(r)) :
                    PtrOps(r)[i].name = IF PtrOps(r)[i].op = "delete"
                                        THEN ptr[r].oldPTRName ELSE ptr[r].newPTRName

\* a PTR goroutine is inside ExecuteNSUpdate with a delete and an add on two
\* different names, holding both locks, while the forward goroutine of the
\* event is inside ExecuteNSUpdate holding the lock of the FQDN
C36_Witness ==
    \E r \in Reqs :
        /\ Executing(fwd[r])
        /\ Executing(ptr[r])
        /\ Cardinality(OpNames(ptr[r].script)) = 2
        /\ Held(ptr[r]) = OpNames(ptr[r].script)
        /\ Held(fwd[r]) = {EventFQDN(r)}

\* the deferred releases of a goroutine are of different names
NoDuplicates(s) == \A i, j \in 1..Len(s) : s[i] = s[j] => i = j

Tasks == { fwd[r] : r \in Reqs } \cup { ptr[r] : r \in Reqs }

\* C37: no mutex is ever unlocked while it is not locked; every lock a
\* goroutine has still to release is locked and is to be released once; a
\* locked mutex has exactly one holder; a goroutine that has ended, after a
\* success, a failure or an early return, has released all its locks; and a
\* mutex is only unlocked by a step of the goroutine that held it.
C37_LockPairing ==
    /\ [](/\ ~fatal
          /\ \A t \in Tasks :
                /\ NoDuplicates(t.defers)
                /\ \A k \in Held(t) : MutexLocked(k)
                /\ t.pc = "done" => t.defers = <<>>
          /\ \A k \in DOMAIN locks :
                mutexes[locks[k]] => Cardinality(Holders(k)) = 1)
    /\ [][\A k \in DOMAIN locks :
            (mutexes[locks[k]] /\ ~mutexes'[locks[k]]) =>
                /\ Holders(k)' = {}
                /\ \A r \in Reqs :
                      /\ <<"fwd", r>> \in Holders(k) =>
                            /\ fwd[r].defers[Len(fwd[r].defers)] = k
                            /\ fwd'[r].defers = SubSeq(fwd[r].defers, 1, Len(fwd[r].defers) - 1)
                      /\ <<"ptr", r>> \in Holders(k) =>
                            /\ ptr[r].defers[Len(ptr[r].defers)] = k
                            /\ ptr'[r].defers = SubSeq(ptr[r].defers, 1, Len(ptr[r].defers) - 1)]_vars

\* after a failed updater call a PTR goroutine has released the lock of
\* newPTRName and is about to release that of oldPTRName, for which another
\* goroutine waits
C37_Witness ==
    \E r1, r2 \in Reqs :
        /\ r1 # r2
        /\ ptr[r1].pc = "defer"
        /\ ptr[r1].res = "err"
        /\ ptr[r1].defers = <<ptr[r1].oldPTRName>>
        /\ ~MutexLocked(ptr[r1].newPTRName)
        /\ ptr[r2].pc = "LockOld"
        /\ ptr[r2].oldPTRName = ptr[r1].oldPTRName
        /\ ~CanLock(ptr[r2].mutex)

-----------------------------------------------------------------------------
(* Properties of the PTR operations of an update                           *)

HasAdd(ops) == \E i \in 1..Len(ops) : ops[i].op = "add"

\* C38: the PTR script of an accepted Updated event whose postchange
\* snapshot has disable_ptr set holds no add.
C38_NoPTRAddWhenDisabled ==
    \A r \in Reqs :
        (/\ IsEvent(r, UpdatedNames)
         /\ resp[r] = Accepted
         /\ Deref(After(r)).DisablePTR
         /\ Executing(ptr[r])) => ~HasAdd(PtrOps(r))

\* C39: every add of a PTR script carries TTL 300, for Created and Updated
\* events, whatever the TTL of the forward record of the event.
C39_PTRAddTTL ==
    \A r \in Reqs :
        PtrBuilt(r) =>
            \A i \in 1..Len(PtrOps(r)) :
                PtrOps(r)[i].op = "add" =>
                    /\ PtrOps(r)[i].ttl = 300
                    /\ PtrOps(r)[i].type = PTR

\* the forward add of an event is handed to ExecuteNSUpdate with TTL 120 and
\* the PTR add of the same event with TTL 300
C39_Witness ==
    \E r \in Reqs :
        /\ Executing(fwd[r])
        /\ Executing(ptr[r])
        /\ \E i \in 1..Len(Ops(fwd[r].script)) :
              Ops(fwd[r].script)[i].op = "add" /\ Ops(fwd[r].script)[i].ttl = 120
        /\ \E i \in 1..Len(PtrOps(r)) :
              PtrOps(r)[i].op = "add" /\ PtrOps(r)[i].ttl = 300

-----------------------------------------------------------------------------
(* Properties of an update that changes the name or the type               *)

\* an accepted Updated event whose before and after differ in FQDN or type
Renames(r) ==
    /\ IsEvent(r, UpdatedNames)
    /\ resp[r] = Accepted
    /\ Before(r) # Nil
    /\ \/ Deref(Before(r)).FQDN # Deref(After(r)).FQDN
       \/ ToUpper(Deref(Before(r)).Type) # ToUpper(Deref(After(r)).Type)

\* C40: when before and after of an Updated event differ in FQDN or in type,
\* every forward operation, the delete of the old value included, is on
\* after.fqdn with the after type; the forward goroutine asks only for the
\* lock of after.fqdn, and nothing is done on before.fqdn: no operation and
\* no lock.
C40_UpdateTargetsAfterName ==
    \A r \in Reqs :
        Renames(r) =>
            /\ fwd[r].pc # "none"
            /\ OpKinds(fwd[r].script) = <<"delete", "add">>
            /\ \A i \in 1..2 :
                  /\ Ops(fwd[r].script)[i].name = Deref(After(r)).FQDN
                  /\ Ops(fwd[r].script)[i].type = ToUpper(Deref(After(r)).Type)
            /\ Ops(fwd[r].script)[1].value =
                  (IF IsCNAME(Deref(After(r))) /\ Deref(Before(r)).Value # Empty
                   THEN QualifiedCNAME(Deref(Before(r)).Value, Deref(Before(r)).FQDN,
                                       Deref(Before(r)).Name)
                   ELSE Deref(Before(r)).Value)
            /\ fwd[r].fqdn = Deref(After(r)).FQDN
            /\ Held(fwd[r]) \subseteq {Deref(After(r)).FQDN}
            /\ Deref(Before(r)).FQDN # Deref(After(r)).FQDN =>
                  /\ Deref(Before(r)).FQDN \notin DOMAIN locks
                  /\ Deref(Before(r)).FQDN \notin OpNames(fwd[r].script)

\* the forward script of an update from the CNAME record c.z. to the A
\* record a.z. is handed to ExecuteNSUpdate: its delete is of the old value
\* on a.z. with type A, and only a.z. is registered for the forward lock
C40_Witness ==
    \E r \in Reqs :
        /\ Renames(r)
        /\ Executing(fwd[r])
        /\ Deref(Before(r)).FQDN = FqdnC
        /\ IsCNAME(Deref(Before(r)))
        /\ Deref(After(r)).FQDN = FqdnA
        /\ Ops(fwd[r].script)[1] = DeleteLine(FqdnA, TypeA, Deref(Before(r)).Value)
        /\ FqdnA \in DOMAIN locks
        /\ FqdnC \notin DOMAIN locks

====
